---- MODULE Spec2Model ----
(***************************************************************************)
(* well_log_toolkit: a Well owning Properties (depth/value series), the    *)
(* filter chaining and hierarchical statistics of Property, and the        *)
(* depth-interval statistics kernels.                                      *)
(*                                                                         *)
(* Numbers.  numpy float64 values are modelled as exact rationals          *)
(* [n |-> numerator, d |-> denominator > 0] in lowest terms; np.nan is the *)
(* record with d = 0.  Depths of the well machine are integers counted in  *)
(* tenths of a depth unit (so the default step 0.1 is 1); the kernels of   *)
(* statistics.py take plain integer depths and return rationals.           *)
(***************************************************************************)
EXTENDS Integers, Sequences, FiniteSets, TLC

VARIABLES
    heap,       \* every live Property object, by identity (index)
    wprops,     \* Well._properties: insertion-ordered <<key, id>> entries
    sourceLas,  \* Well._source_las_files, as the file paths in load order
    depthGrid,  \* Well._depth_grid (<<>> for None)
    lastOp,     \* the last call made, its arguments and its outcome
    nLoads, nResamples, nFilters,  \* calls made so far (bounded)
    kernel,     \* the call of a statistics.py function: its input and its output
    mgr         \* WellDataManager: _wells, _name_mapping, _project_path

vars == <<heap, wprops, sourceLas, depthGrid, lastOp, nLoads, nResamples, nFilters, kernel, mgr>>

-----------------------------------------------------------------------------
(* Bounds of the model *)

MaxLoads == 2        \* load_las calls in one run of the well machine
MaxResamples == 1    \* resample calls in one run
MaxFilters == 2      \* filter calls that return, in one run
GroupLen == 4        \* samples of the properties whose statistics are grouped
AlignLen == 3       \* samples of an aligned property
ResampleLen == 3    \* samples of a resampled source
KernelLen == 3       \* longest array given to a statistics kernel

-----------------------------------------------------------------------------
(* Exact rational arithmetic standing for float64 *)

RECURSIVE GCD(_, _)
GCD(a, b) == IF b = 0 THEN a ELSE GCD(b, a % b)

IAbs(i) == IF i < 0 THEN -i ELSE i

\* n/d for d # 0, in lowest terms with a positive denominator
Rat(n, d) ==
    LET s == IF d < 0 THEN -1 ELSE 1
        g == GCD(IAbs(n), IAbs(d))
    IN  [n |-> (s * n) \div g, d |-> (s * d) \div g]

R(i) == [n |-> i, d |-> 1]

NaN == [n |-> 0, d |-> 0]
IsNaN(v) == v.d = 0

\* the common denominator is the least one, and products are reduced crosswise
\* first, to keep the intermediate integers small
RAdd(a, b) ==
    LET g == GCD(a.d, b.d)
    IN  Rat(a.n * (b.d \div g) + b.n * (a.d \div g), (a.d \div g) * b.d)
RNeg(a) == [n |-> -a.n, d |-> a.d]
RSub(a, b) == RAdd(a, RNeg(b))
RMul(a, b) ==
    LET x == Rat(a.n, b.d)
        y == Rat(b.n, a.d)
    IN  Rat(x.n * y.n, x.d * y.d)
RDiv(a, b) == RMul(a, Rat(b.d, b.n))
RLt(a, b) == a.n * b.d < b.n * a.d
RLe(a, b) == a.n * b.d <= b.n * a.d
RAbs(a) == [n |-> IAbs(a.n), d |-> a.d]
RIsInt(a) == a.d = 1

\* int(val): truncation toward zero
RInt(a) == IF a.n >= 0 THEN a.n \div a.d ELSE -((-a.n) \div a.d)

-----------------------------------------------------------------------------
(* numpy helpers on sequences *)

Range(s) == {s[i] : i \in DOMAIN s}

\* s[mask]: the entries of s at the positions where mask is TRUE, in order
RECURSIVE Select(_, _)
Select(s, mask) ==
    IF s = <<>> THEN <<>>
    ELSE LET rest == Select(Tail(s), Tail(mask))
         IN  IF Head(mask) THEN <<Head(s)>> \o rest ELSE rest

RECURSIVE RSum(_)
RSum(s) == IF s = <<>> THEN R(0) ELSE RAdd(Head(s), RSum(Tail(s)))

RMinOf(S) == CHOOSE x \in S : \A y \in S : RLe(x, y)
RMaxOf(S) == CHOOSE x \in S : \A y \in S : RLe(y, x)

\* np.unique: the distinct values, ascending
RECURSIVE SortedSeq(_)
SortedSeq(S) ==
    IF S = {} THEN <<>>
    ELSE LET m == RMinOf(S) IN <<m>> \o SortedSeq(S \ {m})

IMinOf(S) == CHOOSE x \in S : \A y \in S : x <= y
IMaxOf(S) == CHOOSE x \in S : \A y \in S : y <= x

\* np.arange(lo, stop2 / 2, step) for integers lo, step > 0 and a stop given in halves
RECURSIVE ARange(_, _, _)
ARange(lo, stop2, step) ==
    IF 2 * lo < stop2 THEN <<lo>> \o ARange(lo + step, stop2, step) ELSE <<>>

-----------------------------------------------------------------------------
(* Names *)

\* utils.sanitize_property_name: characters that cannot stand in an identifier
\* become "_"; on the names of this model only "NTG-Flag" has one
SanitizePropertyName(name) ==
    IF name = "NTG-Flag" THEN "NTG_Flag" ELSE name

-----------------------------------------------------------------------------
(* Property *)

NullDefault == Rat(-99925, 100)      \* -999.25
NullAlt == R(-9999)
ToleranceInv == 1000000              \* 1 / 1e-6

\* abs(a) < 1e-6, that is |a.n| * 10^6 < a.d, without forming the product
WithinTolerance(a) == IAbs(a.n) <= (a.d - 1) \div ToleranceInv

NoLabels == [none |-> TRUE, map |-> <<>>]
Labels(m) == [none |-> FALSE, map |-> m]

\* np.where(np.abs(values - null_value) < 1e-6, np.nan, values)
CleanNulls(values, null_value) ==
    [i \in DOMAIN values |->
        LET v == values[i]
        IN  IF ~IsNaN(v) /\ WithinTolerance(RSub(v, null_value)) THEN NaN ELSE v]

\* Property.__init__
NewProperty(name, depth, values, parent_well, prop_type, null_value, labels, source_las, source_name, original_name) ==
    [name |-> name,
     original_name |-> IF original_name = "" THEN name ELSE original_name,
     depth |-> depth,
     values |-> CleanNulls(values, null_value),
     parent_well |-> parent_well,
     type |-> prop_type,
     labels |-> labels,
     source_las |-> source_las,
     source_name |-> source_name,
     secondary_properties |-> <<>>]

\* Property.source ("" stands for None)
Source(p) == IF p.source_name # "" THEN p.source_name ELSE p.source_las

-----------------------------------------------------------------------------
(* Property._resample_to_grid, for the two methods the code requests *)

ValidMask(values) == [i \in DOMAIN values |-> ~IsNaN(values[i])]

\* interp1d(kind='nearest'): the index of the knot taken for x, a tie between two
\* knots going to the shallower one (searchsorted of the midpoints, side='left')
NearestIndex(vd, x) ==
    1 + Cardinality({i \in 1..(Len(vd) - 1) : vd[i] + vd[i + 1] < 2 * x})

\* interp1d(kind='linear') at x inside [vd[1], vd[Len(vd)]]
LinearAt(vd, vv, x) ==
    LET hi == IMinOf({i \in 2..Len(vd) : x <= vd[i]})
        lo == hi - 1
        slope == RDiv(RSub(vv[hi], vv[lo]), R(vd[hi] - vd[lo]))
    IN  RAdd(RMul(slope, R(x - vd[lo])), vv[lo])

ResampleToGrid_clamped(old_depth, old_values, new_depth, method) ==
    LET mask == ValidMask(old_values)
        vd == Select(old_depth, mask)
        vv == Select(old_values, mask)
        kind == IF Len(vd) = 1 THEN "nearest" ELSE method
    IN  IF Len(vd) = 0 THEN [i \in DOMAIN new_depth |-> NaN]
        ELSE [i \in DOMAIN new_depth |->
                LET x == new_depth[i] IN
                IF x < vd[1] THEN vv[1]
                ELSE IF x > vd[Len(vd)] THEN vv[Len(vd)]
                ELSE IF kind = "nearest" THEN vv[NearestIndex(vd, x)]
                ELSE LinearAt(vd, vv, x)]

ResampleToGrid_singleAsNone(old_depth, old_values, new_depth, method) ==
    LET mask == ValidMask(old_values)
        vd == Select(old_depth, mask)
        vv == Select(old_values, mask)
    IN  IF Len(vd) <= 1 THEN [i \in DOMAIN new_depth |-> NaN]
        ELSE [i \in DOMAIN new_depth |->
                LET x == new_depth[i] IN
                IF x < vd[1] \/ x > vd[Len(vd)] THEN NaN
                ELSE IF method = "nearest" THEN vv[NearestIndex(vd, x)]
                ELSE LinearAt(vd, vv, x)]

ResampleToGrid_openEnds(old_depth, old_values, new_depth, method) ==
    LET mask == ValidMask(old_values)
        vd == Select(old_depth, mask)
        vv == Select(old_values, mask)
        kind == IF Len(vd) = 1 THEN "nearest" ELSE method
    IN  IF Len(vd) = 0 THEN [i \in DOMAIN new_depth |-> NaN]
        ELSE [i \in DOMAIN new_depth |->
                LET x == new_depth[i] IN
                IF x <= vd[1] \/ x >= vd[Len(vd)] THEN NaN
                ELSE IF kind = "nearest" THEN vv[NearestIndex(vd, x)]
                ELSE LinearAt(vd, vv, x)]

\* Property._resample_to_grid for an ascending old_depth.  interp1d takes one point
\* as it takes more: every x other than that point's depth is out of bounds.
ResampleToGrid(old_depth, old_values, new_depth, method) ==
    LET mask == ValidMask(old_values)
        vd == Select(old_depth, mask)
        vv == Select(old_values, mask)
        kind == IF Len(vd) = 1 THEN "nearest" ELSE method
    IN  IF Len(vd) = 0 THEN [i \in DOMAIN new_depth |-> NaN]
        ELSE [i \in DOMAIN new_depth |->
                LET x == new_depth[i] IN
                IF x < vd[1] \/ x > vd[Len(vd)] THEN NaN     \* bounds_error=False, fill_value=nan
                ELSE IF kind = "nearest" THEN vv[NearestIndex(vd, x)]
                ELSE LinearAt(vd, vv, x)]

-----------------------------------------------------------------------------
(* Property.sums_avg *)

StatKeys == {"mean", "sum", "count", "depth_samples", "depth_thickness", "min", "max", "std"}

\* np.std(valid) is kept unevaluated, as the array it is taken of: its root is no
\* rational
NpStd(valid) == [np_std |-> valid]

ComputeStats_validOnly(p, mask) ==
    LET values == Select(p.values, mask)
        valid == Select(values, ValidMask(values))
        some == Len(valid) > 0
    IN  [mean |-> IF some THEN RDiv(RSum(valid), R(Len(valid))) ELSE NaN,
         sum |-> IF some THEN RSum(valid) ELSE NaN,
         count |-> Len(valid),
         depth_samples |-> Len(valid),
         depth_thickness |-> R(0),
         min |-> IF some THEN RMinOf(Range(valid)) ELSE NaN,
         max |-> IF some THEN RMaxOf(Range(valid)) ELSE NaN,
         std |-> IF some THEN NpStd(valid) ELSE NaN]

\* Property._compute_stats
ComputeStats(p, mask) ==
    LET values == Select(p.values, mask)
        valid == Select(values, ValidMask(values))
        depth_interval == Select(p.depth, mask)
        depth_thickness ==
            IF Len(depth_interval) > 1
            THEN depth_interval[Len(depth_interval)] - depth_interval[1] ELSE 0
        some == Len(valid) > 0
    IN  [mean |-> IF some THEN RDiv(RSum(valid), R(Len(valid))) ELSE NaN,
         sum |-> IF some THEN RSum(valid) ELSE NaN,
         count |-> Len(valid),
         depth_samples |-> Cardinality({i \in DOMAIN mask : mask[i]}),
         depth_thickness |-> R(depth_thickness),
         min |-> IF some THEN RMinOf(Range(valid)) ELSE NaN,
         max |-> IF some THEN RMaxOf(Range(valid)) ELSE NaN,
         std |-> IF some THEN NpStd(valid) ELSE NaN]

TwoDigits(k) == IF k < 10 THEN "0" \o ToString(k) ELSE ToString(k)

\* f"{val:.2f}": two decimals, ties to even
Format2f(val) ==
    LET a == RAbs(val)
        num == a.n * 100
        q == num \div a.d
        r2 == 2 * (num % a.d)
        hundredths == IF r2 > a.d \/ (r2 = a.d /\ q % 2 = 1) THEN q + 1 ELSE q
    IN  (IF val.n < 0 THEN "-" ELSE "") \o ToString(hundredths \div 100)
            \o "." \o TwoDigits(hundredths % 100)

GroupKey_noLabels(current_filter, val) ==
    IF RIsInt(val) THEN current_filter.name \o "_" \o ToString(RInt(val))
    ELSE current_filter.name \o "_" \o Format2f(val)

\* the key of one group (property.py:404-411)
GroupKey(current_filter, val) ==
    IF ~current_filter.labels.none /\ RIsInt(val)
          /\ RInt(val) \in DOMAIN current_filter.labels.map
    THEN current_filter.labels.map[RInt(val)]
    ELSE IF RIsInt(val) THEN current_filter.name \o "_" \o ToString(RInt(val))
    ELSE current_filter.name \o "_" \o Format2f(val)

\* np.unique(filter_values[~np.isnan(filter_values)]) under the mask, as a set
UniqueVals(current_filter, mask) ==
    {current_filter.values[i] :
        i \in {j \in DOMAIN mask : mask[j] /\ ~IsNaN(current_filter.values[j])}}

SubMask_levelOnly(current_filter, mask, val) ==
    [i \in DOMAIN mask |-> current_filter.values[i] = val]

SubMask_orMissing(current_filter, mask, val) ==
    [i \in DOMAIN mask |->
        mask[i] /\ (current_filter.values[i] = val \/ IsNaN(current_filter.values[i]))]

\* property.py:402: mask & (current_filter.values == val)
SubMask(current_filter, mask, val) ==
    [i \in DOMAIN mask |-> mask[i] /\ current_filter.values[i] = val]

\* Property._recursive_group.  The loop assigns result[key] for the unique values
\* in ascending order, so a key shared by several values keeps the last (largest).
RECURSIVE RecursiveGroup(_, _, _, _)
RecursiveGroup(h, p, filter_idx, mask) ==
    IF filter_idx > Len(p.secondary_properties) THEN ComputeStats(p, mask)
    ELSE LET current_filter == h[p.secondary_properties[filter_idx]]
             unique_vals == UniqueVals(current_filter, mask)
             keys == {GroupKey(current_filter, v) : v \in unique_vals}
         IN  IF unique_vals = {} THEN ComputeStats(p, mask)
             ELSE [k \in keys |->
                     LET val == RMaxOf({v \in unique_vals : GroupKey(current_filter, v) = k})
                     IN  RecursiveGroup(h, p, filter_idx + 1,
                                        SubMask(current_filter, mask, val))]

AllTrue(depth) == [i \in DOMAIN depth |-> TRUE]

\* Property.sums_avg
SumsAvg(h, p) ==
    IF p.secondary_properties = <<>> THEN ComputeStats(p, AllTrue(p.depth))
    ELSE RecursiveGroup(h, p, 1, AllTrue(p.depth))

-----------------------------------------------------------------------------
(* Well: property lookup *)

WellKeys(w) == {w[i].key : i \in DOMAIN w}
WellId(w, key) == w[CHOOSE i \in DOMAIN w : w[i].key = key].id

\* Well.get_property: the id of the property, 0 when it raises PropertyNotFoundError
GetProperty(w, name) ==
    IF name \in WellKeys(w) THEN WellId(w, name)
    ELSE IF SanitizePropertyName(name) \in WellKeys(w)
         THEN WellId(w, SanitizePropertyName(name))
    ELSE 0

-----------------------------------------------------------------------------
(* Property.filter *)

\* property.py:172-176
ParentCheck_skipped(p) == "none"

\* property.py:172-176
ParentCheck(p) ==
    IF ~p.parent_well THEN "PropertyNotFoundError" ELSE "none"

TypeCheck_onlyContinuous(discrete_prop) ==
    IF discrete_prop.type = "continuous" THEN "PropertyTypeError" ELSE "none"

\* property.py:189-194
TypeCheck(discrete_prop) ==
    IF discrete_prop.type # "discrete" THEN "PropertyTypeError" ELSE "none"

FilterSecondary_nativeGrid(p, discrete_prop) ==
    NewProperty(discrete_prop.name, discrete_prop.depth, discrete_prop.values,
                p.parent_well, discrete_prop.type, NullDefault, discrete_prop.labels,
                discrete_prop.source_las, discrete_prop.source_name,
                discrete_prop.original_name)

\* property.py:197-221: the filter's values on the caller's grid, as a Property
FilterSecondary(p, discrete_prop) ==
    NewProperty(discrete_prop.name, p.depth,
                ResampleToGrid(discrete_prop.depth, discrete_prop.values, p.depth, "nearest"),
                p.parent_well, discrete_prop.type, NullDefault, discrete_prop.labels,
                discrete_prop.source_las, discrete_prop.source_name,
                discrete_prop.original_name)

\* property.py:224-237: the caller's data in a new Property
FilterCopy(p) ==
    NewProperty(p.name, p.depth, p.values, p.parent_well, p.type, NullDefault,
                p.labels, p.source_las, p.source_name, p.original_name)

FilterLists_alias(self_secondaries, new_secondary) ==
    [caller |-> Append(self_secondaries, new_secondary),
     result |-> Append(self_secondaries, new_secondary)]

FilterLists_prepend(self_secondaries, new_secondary) ==
    [caller |-> self_secondaries,
     result |-> <<new_secondary>> \o self_secondaries]

\* property.py:205-221, 238: the caller's list is copied, the copy gets the new entry
FilterLists(self_secondaries, new_secondary) ==
    [caller |-> self_secondaries,
     result |-> Append(self_secondaries, new_secondary)]

\* Property.filter on the object self of heap h, in the well with properties w
Filter(h, w, self, property_name) ==
    LET p == h[self]
        failed(kind) == [raised |-> kind, heap |-> h, ret |-> 0]
    IN  IF ParentCheck(p) # "none" THEN failed(ParentCheck(p))
        ELSE LET found == GetProperty(w, property_name) IN
             IF found = 0 THEN failed("PropertyNotFoundError")
             ELSE IF TypeCheck(h[found]) # "none" THEN failed(TypeCheck(h[found]))
             ELSE LET sec_id == Len(h) + 1
                      lists == FilterLists(p.secondary_properties, sec_id)
                      h1 == [h EXCEPT ![self].secondary_properties = lists.caller]
                      new_prop == [FilterCopy(p) EXCEPT !.secondary_properties = lists.result]
                  IN  [raised |-> "none",
                       heap |-> h1 \o <<FilterSecondary(p, h[found]), new_prop>>,
                       ret |-> Len(h) + 2]

-----------------------------------------------------------------------------
(* Well.load_las *)

\* Well._merge_property.  argsort of the concatenated depths does not fix the order
\* of an existing and a new sample at one depth, and the first of the two is kept:
\* tie names the one that comes first.
MergeProperty(existing, new_prop, tie) ==
    LET all == Range(existing.depth) \cup Range(new_prop.depth)
        combined_depth == [i \in 1..Cardinality(all) |->
                              CHOOSE x \in all : Cardinality({y \in all : y < x}) = i - 1]
        at(q, x) == q.values[CHOOSE i \in DOMAIN q.depth : q.depth[i] = x]
        value(x) ==
            IF x \notin Range(new_prop.depth) THEN at(existing, x)
            ELSE IF x \notin Range(existing.depth) THEN at(new_prop, x)
            ELSE IF tie = "existing" THEN at(existing, x) ELSE at(new_prop, x)
    IN  [existing EXCEPT !.depth = combined_depth,
                         !.values = [i \in DOMAIN combined_depth |-> value(combined_depth[i])]]

\* well.py:131-177, one curve after the other
RECURSIVE LoadCurves(_, _, _, _, _)
LoadCurves(h, w, las, i, tie) ==
    IF i > Len(las.curves) THEN [heap |-> h, wprops |-> w]
    ELSE LET curve == las.curves[i]
             prop_type == IF curve.discrete THEN "discrete" ELSE curve.type
             labels == IF curve.discrete THEN curve.labels ELSE NoLabels
             key == SanitizePropertyName(curve.name)
             prop == NewProperty(key, las.depth, curve.values, TRUE, prop_type,
                                 las.null_value, labels, las.filepath, las.filepath,
                                 curve.name)
         IN  IF key \in WellKeys(w)
             THEN LoadCurves([h EXCEPT ![WellId(w, key)] = MergeProperty(@, prop, tie)],
                             w, las, i + 1, tie)
             ELSE LoadCurves(Append(h, prop),
                             Append(w, [key |-> key, id |-> Len(h) + 1]),
                             las, i + 1, tie)

\* Well.load_las into the well named well_name
WellLoadLas(h, w, srcs, well_name, las, tie) ==
    IF las.well_name # well_name
    THEN [raised |-> "WellNameMismatchError", heap |-> h, wprops |-> w, sources |-> srcs]
    ELSE IF ~las.has_depth
    THEN [raised |-> "WellError", heap |-> h, wprops |-> w,
          sources |-> Append(srcs, las.filepath)]
    ELSE LET done == LoadCurves(h, w, las, 1, tie)
         IN  [raised |-> "none", heap |-> done.heap, wprops |-> done.wprops,
              sources |-> Append(srcs, las.filepath)]

-----------------------------------------------------------------------------
(* Well.resample *)

DefaultDepthStep == 1     \* 0.1, in tenths

NoGrid == <<>>
NoRange == <<>>
NoStep == 0

ResampleMethod(prop) == IF prop.type = "continuous" THEN "linear" ELSE "nearest"

ResampleGrid_emptyFirst(h, w, depth_grid, depth_step, depth_range) ==
    IF w = <<>> THEN [raised |-> "WellError", grid |-> NoGrid]
    ELSE IF depth_grid # NoGrid THEN [raised |-> "none", grid |-> depth_grid]
    ELSE LET step == IF depth_step = NoStep THEN DefaultDepthStep ELSE depth_step
             all_depths == UNION {Range(h[w[i].id].depth) : i \in DOMAIN w}
             range == IF depth_range = NoRange
                      THEN <<IMinOf(all_depths), IMaxOf(all_depths)>>
                      ELSE depth_range
         IN  [raised |-> "none", grid |-> ARange(range[1], 2 * range[2] + step, step)]

\* well.py:451-470: the grid used, or the error raised
ResampleGrid(h, w, depth_grid, depth_step, depth_range) ==
    IF depth_grid # NoGrid THEN [raised |-> "none", grid |-> depth_grid]
    ELSE LET step == IF depth_step = NoStep THEN DefaultDepthStep ELSE depth_step
             all_depths == UNION {Range(h[w[i].id].depth) : i \in DOMAIN w}
         IN  IF depth_range = NoRange /\ w = <<>>
             THEN [raised |-> "WellError", grid |-> NoGrid]
             ELSE LET range == IF depth_range = NoRange
                               THEN <<IMinOf(all_depths), IMaxOf(all_depths)>>
                               ELSE depth_range
                  IN  [raised |-> "none",
                       grid |-> ARange(range[1], 2 * range[2] + step, step)]

ResampleAll_continuousOnly(h, w, grid) ==
    LET owned == {w[i].id : i \in DOMAIN w}
    IN  [id \in DOMAIN h |->
            IF id \in owned /\ h[id].type = "continuous"
            THEN [h[id] EXCEPT !.depth = grid,
                               !.values = ResampleToGrid(h[id].depth, h[id].values, grid,
                                                         "linear")]
            ELSE h[id]]

\* well.py:472-485: every owned property rewritten onto the grid
ResampleAll(h, w, grid) ==
    LET owned == {w[i].id : i \in DOMAIN w}
    IN  [id \in DOMAIN h |->
            IF id \in owned
            THEN [h[id] EXCEPT !.depth = grid,
                               !.values = ResampleToGrid(h[id].depth, h[id].values, grid,
                                                         ResampleMethod(h[id]))]
            ELSE h[id]]

-----------------------------------------------------------------------------
(* The LAS files and call arguments of the well machine *)

WellName == "W-1"

Curve(name, type, discrete, labels, values) ==
    [name |-> name, type |-> type, discrete |-> discrete, labels |-> labels,
     values |-> values]

ReservoirLabels == Labels(0 :> "NonReservoir" @@ 1 :> "Reservoir")

\* a log sampled every tenth, null -9999, one PHIE reading of -999.25
LogLas ==
    [well_name |-> WellName, filepath |-> "log.las", has_depth |-> TRUE,
     depth |-> <<0, 1, 2, 3>>, null_value |-> NullAlt,
     curves |-> <<Curve("PHIE", "continuous", FALSE, NoLabels,
                        <<R(10), NullDefault, R(30), NullAlt>>),
                  Curve("Zone", "continuous", TRUE, ReservoirLabels,
                        <<R(0), R(0), R(1), R(1)>>),
                  Curve("NTG-Flag", "continuous", TRUE, NoLabels,
                        <<R(0), R(1), R(0), R(1)>>)>>]

\* core plugs on their own depths, null -999.25
CoreLas ==
    [well_name |-> WellName, filepath |-> "core.las", has_depth |-> TRUE,
     depth |-> <<2, 3, 5>>, null_value |-> NullDefault,
     curves |-> <<Curve("PHIE", "sampled", FALSE, NoLabels,
                        <<R(20), NullDefault, R(28)>>)>>]

\* a file of another well, and a file without a depth column
OtherLas == [LogLas EXCEPT !.well_name = "W-2", !.filepath = "other.las"]
NoDepthLas == [CoreLas EXCEPT !.has_depth = FALSE, !.filepath = "nodepth.las"]

LasFiles == {LogLas, CoreLas, OtherLas}

FilterNames == {"Zone", "NTG-Flag", "PHIE", "Missing"}

ResampleArgs ==
    {[depth_grid |-> <<0, 2, 4>>, depth_step |-> NoStep, depth_range |-> NoRange],
     [depth_grid |-> NoGrid, depth_step |-> NoStep, depth_range |-> NoRange],
     [depth_grid |-> NoGrid, depth_step |-> 2, depth_range |-> <<1, 4>>]}

\* Property("X", depth, values): made by the caller, no parent well
Standalone ==
    NewProperty("X", <<0, 1>>, <<R(1), R(2)>>, FALSE, "continuous", NullDefault,
                NoLabels, "", "", "")

-----------------------------------------------------------------------------
(* The well machine: one well, the Properties made from it, one Property made
   without a well *)

\* The program's own state.  lastOp and the counters are the model's record of the
\* calls made.
prog == <<heap, wprops, sourceLas, depthGrid>>

\* lastOp.changed: the call changed the program's state.  A call that changed
\* nothing (a query such as sums_avg, a call that raised before any write) is
\* recorded and the run is not continued from it: every continuation starts from
\* the same program state as the continuations of the state before the call.
Call(op, self, arg, raised, ret, result, changed) ==
    [op |-> op, self |-> self, arg |-> arg, raised |-> raised, ret |-> ret,
     result |-> result, changed |-> changed]

NoKernel == [fn |-> "none", depth |-> <<>>, out |-> <<>>]

\* WellDataManager.__init__ without a project ("" stands for None)
NewManager == [wells |-> <<>>, name_mapping |-> <<>>, project_path |-> ""]

Init ==
    /\ heap = <<Standalone>>
    /\ wprops = <<>>
    /\ sourceLas = <<>>
    /\ depthGrid = NoGrid
    /\ lastOp = Call("init", 0, "", "none", 0, <<>>, TRUE)
    /\ nLoads = 0
    /\ nResamples = 0
    /\ nFilters = 0
    /\ kernel = NoKernel
    /\ mgr = NewManager

\* well.load_las(las)
LoadLas ==
    /\ lastOp.changed
    /\ nLoads < MaxLoads
    /\ \E las \in LasFiles, tie \in {"existing", "new"} :
         LET r == WellLoadLas(heap, wprops, sourceLas, WellName, las, tie)
         IN  /\ heap' = r.heap
             /\ wprops' = r.wprops
             /\ sourceLas' = r.sources
             /\ lastOp' = Call("load_las", 0, las.filepath, r.raised, 0, <<>>,
                               <<r.heap, r.wprops, r.sources>> # <<heap, wprops, sourceLas>>)
    /\ nLoads' = nLoads + 1
    /\ UNCHANGED <<depthGrid, nResamples, nFilters, kernel, mgr>>

\* well.resample(depth_grid, depth_step, depth_range)
Resample ==
    /\ lastOp.changed
    /\ nResamples < MaxResamples
    /\ \E a \in ResampleArgs :
         LET g == ResampleGrid(heap, wprops, a.depth_grid, a.depth_step, a.depth_range)
         IN  /\ IF g.raised = "none"
                THEN /\ depthGrid' = g.grid
                     /\ heap' = ResampleAll(heap, wprops, g.grid)
                ELSE UNCHANGED <<depthGrid, heap>>
             /\ lastOp' = Call("resample", 0, a, g.raised, 0, <<>>,
                               <<heap', depthGrid'>> # <<heap, depthGrid>>)
    /\ nResamples' = nResamples + 1
    /\ UNCHANGED <<wprops, sourceLas, nLoads, nFilters, kernel, mgr>>

\* p.filter(name) on any live Property
FilterCall ==
    /\ lastOp.changed
    /\ \E self \in DOMAIN heap, name \in FilterNames :
        LET r == Filter(heap, wprops, self, name)
        IN  /\ r.raised = "none" => nFilters < MaxFilters
            /\ heap' = r.heap
            /\ lastOp' = Call("filter", self, name, r.raised, r.ret, <<>>, r.heap # heap)
            /\ nFilters' = IF r.raised = "none" THEN nFilters + 1 ELSE nFilters
            /\ UNCHANGED <<wprops, sourceLas, depthGrid, nLoads, nResamples, kernel, mgr>>

Next == LoadLas \/ Resample \/ FilterCall

Spec == Init /\ [][Next]_vars

-----------------------------------------------------------------------------
(* Grouped statistics: sums_avg on the Properties of a loaded well and on the
   filter chains built on its PHIE *)

GroupDepth == [i \in 1..GroupLen |-> i - 1]

PhiePatterns ==
    {[i \in 1..GroupLen |-> R(10 * i)],
     [i \in 1..GroupLen |-> IF i = 2 THEN NullDefault ELSE R(10 * i)]}

ZoneCodes == {R(0), R(1), NullDefault}

NtgPatterns ==
    {[i \in 1..GroupLen |-> R(i % 2)],
     [i \in 1..GroupLen |-> IF 2 * i <= GroupLen THEN R(0) ELSE R(1)],
     [i \in 1..GroupLen |-> IF i = 1 THEN Rat(3, 2) ELSE IF i = 3 THEN Rat(1, 8) ELSE R(1)]}

ZoneLabelChoices ==
    {NoLabels, ReservoirLabels,
     Labels(0 :> "NonReservoir"),
     Labels(0 :> "Shale" @@ 1 :> "Shale")}

GroupLas(phie, zone, zone_labels, ntg) ==
    [well_name |-> WellName, filepath |-> "zones.las", has_depth |-> TRUE,
     depth |-> GroupDepth, null_value |-> NullDefault,
     curves |-> <<Curve("PHIE", "continuous", FALSE, NoLabels, phie),
                  Curve("Zone", "continuous", TRUE, zone_labels, zone),
                  Curve("NTG-Flag", "continuous", TRUE, NoLabels, ntg)>>]

Chains == {<<"Zone">>, <<"Zone", "NTG-Flag">>, <<"NTG-Flag", "Zone">>}

\* p.filter(chain[1]).filter(chain[2])... from the object self: the heap afterwards
RECURSIVE FilterChain(_, _, _, _)
FilterChain(h, w, self, chain) ==
    IF chain = <<>> THEN h
    ELSE LET r == Filter(h, w, self, Head(chain))
         IN  FilterChain(r.heap, w, r.ret, Tail(chain))

InitGroup ==
    \E phie \in PhiePatterns, zone \in [1..GroupLen -> ZoneCodes],
       zone_labels \in ZoneLabelChoices, ntg \in NtgPatterns, chain \in Chains :
        LET loaded == WellLoadLas(<<>>, <<>>, <<>>, WellName,
                                  GroupLas(phie, zone, zone_labels, ntg), "existing")
        IN  /\ heap = FilterChain(loaded.heap, loaded.wprops,
                                  GetProperty(loaded.wprops, "PHIE"), chain)
            /\ wprops = loaded.wprops
            /\ sourceLas = loaded.sources
            /\ depthGrid = NoGrid
            /\ lastOp = Call("filter", 0, chain, "none", 0, <<>>, TRUE)
            /\ nLoads = 1
            /\ nResamples = 0
            /\ nFilters = Len(chain)
            /\ kernel = NoKernel
            /\ mgr = NewManager

\* p.sums_avg() on any live Property
SumsAvgCall ==
    /\ lastOp.changed
    /\ \E self \in DOMAIN heap :
        /\ lastOp' = Call("sums_avg", self, "", "none", 0, SumsAvg(heap, heap[self]), FALSE)
        /\ UNCHANGED <<prog, nLoads, nResamples, nFilters, kernel, mgr>>

NextGroup == SumsAvgCall

SpecGroup == InitGroup /\ [][NextGroup]_vars

-----------------------------------------------------------------------------
(* statistics.py: the kernels, each applied to an array drawn at the start *)

ComputeIntervals_forward(depth) ==
    LET n == Len(depth) IN
    IF n = 0 THEN <<>>
    ELSE IF n = 1 THEN <<R(1)>>
    ELSE [i \in 1..n |->
            IF i = n THEN Rat(depth[n] - depth[n - 1], 2)
            ELSE Rat(depth[i + 1] - depth[i], 2)]

\* statistics.compute_intervals
ComputeIntervals(depth) ==
    LET n == Len(depth) IN
    IF n = 0 THEN <<>>
    ELSE IF n = 1 THEN <<R(1)>>
    ELSE [i \in 1..n |->
            IF i = 1 THEN Rat(depth[2] - depth[1], 2)
            ELSE IF i = n THEN Rat(depth[n] - depth[n - 1], 2)
            ELSE LET lower_mid == Rat(depth[i] + depth[i - 1], 2)
                     upper_mid == Rat(depth[i + 1] + depth[i], 2)
                 IN  RSub(upper_mid, lower_mid)]

KernelDepths == {1500, 1501, 1502, 1505}

SeqsUpTo(S, n) == UNION {[1..k -> S] : k \in 0..n}

InitKernel ==
    /\ heap = <<>>
    /\ wprops = <<>>
    /\ sourceLas = <<>>
    /\ depthGrid = NoGrid
    /\ lastOp = Call("init", 0, "", "none", 0, <<>>, TRUE)
    /\ nLoads = 0
    /\ nResamples = 0
    /\ nFilters = 0
    /\ mgr = NewManager
    /\ \E depth \in SeqsUpTo(KernelDepths, KernelLen) :
         kernel = [fn |-> "none", depth |-> depth, out |-> <<>>]

\* compute_intervals(depth)
ComputeIntervalsCall ==
    /\ kernel.fn = "none"
    /\ kernel' = [kernel EXCEPT !.fn = "compute_intervals",
                                !.out = ComputeIntervals(kernel.depth)]
    /\ UNCHANGED <<prog, lastOp, nLoads, nResamples, nFilters, mgr>>

NextKernel == ComputeIntervalsCall

SpecKernel == InitKernel /\ [][NextKernel]_vars

-----------------------------------------------------------------------------
(* Properties of filter() *)

Secondaries(h, id) == h[id].secondary_properties

FilterStep == lastOp'.op = "filter"
FilterReturned == lastOp.op = "filter" /\ lastOp.raised = "none" /\ lastOp.ret # 0

\* C1: in every state reached by load_las, resample and filter calls, each
\* secondary property of each live Property (owned by the well, returned by
\* filter(), or itself a secondary) is on that Property's own depth array: the same
\* length and the same depth values.
C1_SecondariesShareDepth ==
    \A id \in DOMAIN heap :
        \A k \in DOMAIN Secondaries(heap, id) :
            heap[Secondaries(heap, id)[k]].depth = heap[id].depth

\* a property with two filters, made before the well was resampled onto another grid
C1_Witness ==
    \E id \in DOMAIN heap :
        /\ Len(Secondaries(heap, id)) = 2
        /\ nResamples = 1
        /\ \E i \in DOMAIN wprops : heap[wprops[i].id].depth # heap[id].depth

\* C2: a filter() call, returning or raising, leaves the Property it is called on
\* as it was (depth, values, type, labels, secondary list), and leaves the
\* secondary list of every other Property as it was, so chains built from one
\* source do not change each other.
C2_FilterLeavesCaller ==
    [][FilterStep =>
         /\ heap'[lastOp'.self] = heap[lastOp'.self]
         /\ \A id \in DOMAIN heap : Secondaries(heap', id) = Secondaries(heap, id)]_vars

\* a second chain has just been built from a source that already had one
C2_Witness ==
    /\ FilterReturned
    /\ \E other \in DOMAIN heap :
         /\ other < lastOp.ret - 1
         /\ heap[other].name = heap[lastOp.self].name
         /\ Len(Secondaries(heap, other)) = 1
         /\ Len(Secondaries(heap, lastOp.ret)) = 1
         /\ heap[Secondaries(heap, other)[1]].name
                # heap[Secondaries(heap, lastOp.ret)[1]].name

\* the keys of the groups a filter can give
KeysOf(f) == {GroupKey(f, f.values[i]) : i \in {j \in DOMAIN f.values : ~IsNaN(f.values[j])}}
IsFlat(t) == DOMAIN t = StatKeys

\* sums_avg() of q groups by its first secondary at the outer level and by its
\* second inside it
GroupsInListOrder(h, q) ==
    LET t == SumsAvg(h, q)
        A == h[q.secondary_properties[1]]
    IN  /\ KeysOf(A) # {} => DOMAIN t = KeysOf(A)
        /\ Len(q.secondary_properties) >= 2 /\ KeysOf(A) # {} =>
              \A k \in DOMAIN t :
                  IsFlat(t[k]) \/ DOMAIN t[k] \subseteq KeysOf(h[q.secondary_properties[2]])

\* C3: a filter(X) call that returns gives a Property on the caller's depth array
\* whose secondaries are the caller's, in order, followed by one new entry for X;
\* its sums_avg() groups by the secondaries in that order.
C3_FilterAppends ==
    [][FilterStep /\ lastOp'.raised = "none" =>
         LET p == heap[lastOp'.self]
             q == heap'[lastOp'.ret]
             n == Len(p.secondary_properties)
             X == heap[GetProperty(wprops, lastOp'.arg)]
         IN  /\ q.depth = p.depth
             /\ Len(q.secondary_properties) = n + 1
             /\ SubSeq(q.secondary_properties, 1, n) = p.secondary_properties
             /\ heap'[q.secondary_properties[n + 1]].name = X.name
             /\ heap'[q.secondary_properties[n + 1]].labels = X.labels
             /\ GroupsInListOrder(heap', q)]_vars

\* p.filter(A).filter(B) with A # B has just returned, and both levels have groups
C3_Witness ==
    /\ FilterReturned
    /\ LET q == heap[lastOp.ret]
           t == SumsAvg(heap, q)
       IN  /\ Len(q.secondary_properties) = 2
           /\ heap[q.secondary_properties[1]].name # heap[q.secondary_properties[2]].name
           /\ ~IsFlat(t)
           /\ \E k \in DOMAIN t : ~IsFlat(t[k])

\* C4 as stated: the Property filter() returns has the caller's values at every
\* depth (the same numbers, the same missing positions) and its type, labels and
\* source, whatever null sentinel the caller was built with.
C4_FilterKeepsValues ==
    [][FilterStep /\ lastOp'.raised = "none" =>
         LET p == heap[lastOp'.self]
             q == heap'[lastOp'.ret]
         IN  /\ q.values = p.values
             /\ q.type = p.type
             /\ q.labels = p.labels
             /\ Source(q) = Source(p)]_vars

\* C8: filter(name) raises PropertyTypeError, and returns no Property, whenever the
\* caller has a parent well and name resolves there to a property whose type is
\* not 'discrete'.
C8_NonDiscreteRaises ==
    [][FilterStep /\ heap[lastOp'.self].parent_well
          /\ GetProperty(wprops, lastOp'.arg) # 0
          /\ heap[GetProperty(wprops, lastOp'.arg)].type # "discrete"
       => /\ lastOp'.raised = "PropertyTypeError"
          /\ lastOp'.ret = 0
          /\ heap' = heap]_vars

\* filter() by a 'sampled' property has raised PropertyTypeError
C8_Witness ==
    /\ lastOp.op = "filter"
    /\ lastOp.raised = "PropertyTypeError"
    /\ heap[GetProperty(wprops, lastOp.arg)].type = "sampled"

\* C9: filter(name) raises PropertyNotFoundError, nothing else, when the caller has
\* no parent well or when name resolves to no property of the well (as given or
\* sanitized); without a parent well it does so whatever name is, the check of the
\* parent coming first.
C9_NotFoundRaises ==
    [][FilterStep /\ (~heap[lastOp'.self].parent_well \/ GetProperty(wprops, lastOp'.arg) = 0)
       => /\ lastOp'.raised = "PropertyNotFoundError"
          /\ heap' = heap]_vars

\* a Property without a parent well was filtered by the name of a property the
\* well holds with a type that is not discrete
C9_Witness ==
    /\ lastOp.op = "filter"
    /\ lastOp.raised = "PropertyNotFoundError"
    /\ ~heap[lastOp.self].parent_well
    /\ GetProperty(wprops, lastOp.arg) # 0
    /\ heap[GetProperty(wprops, lastOp.arg)].type # "discrete"

-----------------------------------------------------------------------------
(* Properties of sums_avg() *)

SumsAvgDone == lastOp.op = "sums_avg"

\* the non-missing values of the k-th filter of q
FilterVals(h, q, k) ==
    {v \in Range(h[q.secondary_properties[k]].values) : ~IsNaN(v)}

\* the samples of q where the k-th filter has the value vs[k], for every k
SamplesWhere(h, q, vs) ==
    {i \in DOMAIN q.depth :
        \A k \in DOMAIN vs : h[q.secondary_properties[k]].values[i] = vs[k]}

\* the key the documentation gives the group of value v of filter f
TwoDecimals(v) ==
    CASE v = Rat(3, 2) -> "1.50"
      [] v = Rat(1, 8) -> "0.12"
      [] OTHER -> "?"

KeyFor(f, v) ==
    IF v.d = 1 /\ ~f.labels.none /\ v.n \in DOMAIN f.labels.map THEN f.labels.map[v.n]
    ELSE IF v.d = 1 THEN f.name \o "_" \o ToString(v.n)
    ELSE f.name \o "_" \o TwoDecimals(v)

RECURSIVE Descend(_, _)
Descend(t, keys) ==
    IF keys = <<>> THEN t
    ELSE IF IsFlat(t) \/ Head(keys) \notin DOMAIN t THEN [missing |-> TRUE]
    ELSE Descend(t[Head(keys)], Tail(keys))

\* leaf holds the statistics of q over the samples S
LeafHolds(leaf, q, S) ==
    LET vals == Select(q.values, [i \in DOMAIN q.values |-> i \in S /\ ~IsNaN(q.values[i])])
    IN  /\ IsFlat(leaf)
        /\ leaf.depth_samples = Cardinality(S)
        /\ leaf.count = Len(vals)
        /\ leaf.sum = IF vals = <<>> THEN NaN ELSE RSum(vals)
        /\ leaf.mean = IF vals = <<>> THEN NaN ELSE RDiv(RSum(vals), R(Len(vals)))
        /\ leaf.min = IF vals = <<>> THEN NaN ELSE RMinOf(Range(vals))
        /\ leaf.max = IF vals = <<>> THEN NaN ELSE RMaxOf(Range(vals))

ValueTuples(h, q) ==
    LET N == Len(q.secondary_properties)
    IN  {vs \in [1..N -> UNION {FilterVals(h, q, k) : k \in 1..N}] :
            \A k \in 1..N : vs[k] \in FilterVals(h, q, k)}

\* C5 as stated: for a Property with filters f1..fN, the leaf of sums_avg() under
\* the keys of the values (v1..vN) holds count, depth_samples, sum, mean, min and
\* max over exactly the samples where every fi has the value vi, for every
\* combination of values that some sample has.
C5_LeafOverOwnSamples ==
    SumsAvgDone =>
        LET q == heap[lastOp.self]
            fs == q.secondary_properties
        IN  \A vs \in ValueTuples(heap, q) :
                fs # <<>> /\ SamplesWhere(heap, q, vs) # {} =>
                    LeafHolds(Descend(lastOp.result,
                                      [k \in DOMAIN fs |-> KeyFor(heap[fs[k]], vs[k])]),
                              q, SamplesWhere(heap, q, vs))

RECURSIVE MinDepth(_)
MinDepth(t) == IF IsFlat(t) THEN 0 ELSE 1 + IMinOf({MinDepth(t[k]) : k \in DOMAIN t})

RECURSIVE MaxDepth(_)
MaxDepth(t) == IF IsFlat(t) THEN 0 ELSE 1 + IMaxOf({MaxDepth(t[k]) : k \in DOMAIN t})

\* below level there are only filters, each node with no more branches than its
\* filter has unique values, and every path ends in a flat dict
RECURSIVE BranchesWithin(_, _, _, _)
BranchesWithin(t, h, q, level) ==
    \/ IsFlat(t)
    \/ /\ level <= Len(q.secondary_properties)
       /\ Cardinality(DOMAIN t) <= Cardinality(FilterVals(h, q, level))
       /\ \A k \in DOMAIN t : BranchesWithin(t[k], h, q, level + 1)

FlatOverAll(t, q) ==
    /\ LeafHolds(t, q, DOMAIN q.depth)
    /\ t.depth_thickness =
          R(IF Len(q.depth) > 1 THEN q.depth[Len(q.depth)] - q.depth[1] ELSE 0)

NoMissing(h, q) ==
    \A k \in DOMAIN q.secondary_properties :
        \A i \in DOMAIN q.depth : ~IsNaN(h[q.secondary_properties[k]].values[i])

\* C6 as stated: without secondaries sums_avg() is a flat dict of exactly the eight
\* statistics over every sample; with N secondaries it is nested N levels deep,
\* flat dicts at the leaves, at most k branches at a level whose filter has k
\* unique values.
C6_NestedExactlyN ==
    SumsAvgDone =>
        LET q == heap[lastOp.self]
            t == lastOp.result
            N == Len(q.secondary_properties)
        IN  /\ N = 0 => FlatOverAll(t, q)
            /\ N >= 1 => /\ BranchesWithin(t, heap, q, 1)
                         /\ MinDepth(t) = N
                         /\ MaxDepth(t) = N

\* C6, amended: without secondaries sums_avg() is a flat dict of exactly the eight
\* statistics over every sample; with N secondaries it is nested at most N levels
\* deep, flat dicts at the leaves, at most k branches at a level whose filter has k
\* unique values, and every path is exactly N levels deep when the Property has a
\* sample and no secondary has a missing value.
C6_NestedAtMostN ==
    SumsAvgDone =>
        LET q == heap[lastOp.self]
            t == lastOp.result
            N == Len(q.secondary_properties)
        IN  /\ N = 0 => FlatOverAll(t, q)
            /\ N >= 1 => /\ BranchesWithin(t, heap, q, 1)
                         /\ MaxDepth(t) <= N
                         /\ Len(q.depth) > 0 /\ NoMissing(heap, q) => MinDepth(t) = N

\* two filters, one branch stopping early beside one that goes both levels down
C6_Witness ==
    /\ SumsAvgDone
    /\ Len(heap[lastOp.self].secondary_properties) = 2
    /\ MinDepth(lastOp.result) = 1
    /\ MaxDepth(lastOp.result) = 2

\* C7: under each filter of sums_avg() the keys are those of the filter's values: the
\* mapped label for an integer value the label mapping holds, otherwise
\* '<name>_<int>' for an integer value, otherwise '<name>_' and the value with two
\* decimals; a filter labelled {0: 'NonReservoir', 1: 'Reservoir'} with values 0
\* and 1 gives 'NonReservoir' and 'Reservoir', never 'Zone_0' or 'Zone_1'.
C7_GroupKeys ==
    SumsAvgDone /\ heap[lastOp.self].secondary_properties # <<>> =>
        LET q == heap[lastOp.self]
            t == lastOp.result
            f1 == heap[q.secondary_properties[1]]
            keys(k) == {KeyFor(heap[q.secondary_properties[k]], v) :
                            v \in FilterVals(heap, q, k)}
        IN  /\ ~IsFlat(t) => DOMAIN t = keys(1)
            /\ ~IsFlat(t) /\ f1.labels = ReservoirLabels =>
                   DOMAIN t \subseteq {"NonReservoir", "Reservoir"}
            /\ ~IsFlat(t) /\ Len(q.secondary_properties) >= 2 =>
                   \A k \in DOMAIN t :
                       ~IsFlat(t[k]) => DOMAIN t[k] # {} /\ DOMAIN t[k] \subseteq keys(2)

\* a labelled filter outside a filter with an integer and two fractional values
C7_Witness ==
    /\ SumsAvgDone
    /\ Len(heap[lastOp.self].secondary_properties) = 2
    /\ DOMAIN lastOp.result = {"NonReservoir", "Reservoir"}
    /\ \E k \in DOMAIN lastOp.result :
         DOMAIN lastOp.result[k] = {"NTG_Flag_1", "NTG_Flag_1.50", "NTG_Flag_0.12"}

-----------------------------------------------------------------------------
(* Properties of the kernels *)

\* C10: for a depth array of at least two samples the intervals of
\* compute_intervals sum to depth[last] - depth[first]; for [1500, 1501, 1505]
\* they are [0.5, 2.5, 2.0].
C10_IntervalsSumToSpan ==
    kernel.fn = "compute_intervals" /\ Len(kernel.depth) >= 2 =>
        /\ Len(kernel.out) = Len(kernel.depth)
        /\ RSum(kernel.out) = R(kernel.depth[Len(kernel.depth)] - kernel.depth[1])
        /\ kernel.depth = <<1500, 1501, 1505>> =>
               kernel.out = <<Rat(1, 2), Rat(5, 2), R(2)>>

C10_Witness ==
    /\ kernel.fn = "compute_intervals"
    /\ kernel.depth = <<1500, 1501, 1505>>

-----------------------------------------------------------------------------
(* statistics.py: weighted_percentile *)

\* np.argsort(valid_values) and the two reorderings by it, on (value, weight) pairs.
\* For arrays this short numpy's default sort is an insertion sort, which keeps
\* equal values in their order.
RECURSIVE InsertSorted(_, _)
InsertSorted(sorted, x) ==
    IF sorted = <<>> THEN <<x>>
    ELSE LET last == sorted[Len(sorted)]
         IN  IF RLe(last.v, x.v) THEN Append(sorted, x)
             ELSE Append(InsertSorted(SubSeq(sorted, 1, Len(sorted) - 1), x), last)

RECURSIVE SortByValue(_)
SortByValue(pairs) ==
    IF pairs = <<>> THEN <<>>
    ELSE InsertSorted(SortByValue(SubSeq(pairs, 1, Len(pairs) - 1)), pairs[Len(pairs)])

\* np.cumsum
RECURSIVE CumSum(_)
CumSum(s) ==
    IF s = <<>> THEN <<>>
    ELSE LET front == CumSum(SubSeq(s, 1, Len(s) - 1))
         IN  Append(front, IF front = <<>> THEN s[Len(s)]
                           ELSE RAdd(front[Len(front)], s[Len(s)]))

\* np.searchsorted(a, v) (side='left') on an ascending a: how many entries are < v
SearchSorted_right(a, v) == Cardinality({i \in DOMAIN a : RLe(a[i], v)})

SearchSorted(a, v) == Cardinality({i \in DOMAIN a : RLt(a[i], v)})

\* statistics.weighted_percentile, for weights that are not negative
WeightedPercentile(values, weights, percentile) ==
    LET valid_mask == [i \in DOMAIN values |-> ~IsNaN(values[i]) /\ ~IsNaN(weights[i])]
        valid_values == Select(values, valid_mask)
        valid_weights == Select(weights, valid_mask)
        sorted == SortByValue([i \in DOMAIN valid_values |->
                                  [v |-> valid_values[i], w |-> valid_weights[i]]])
        sorted_values == [i \in DOMAIN sorted |-> sorted[i].v]
        cumulative_weight == CumSum([i \in DOMAIN sorted |-> sorted[i].w])
        n == Len(sorted)
    IN  IF n = 0 THEN NaN
        ELSE LET total_weight == cumulative_weight[n]
                 target_weight == RMul(Rat(percentile, 100), total_weight)
                 idx == SearchSorted(cumulative_weight, target_weight)
             IN  IF idx = 0 THEN sorted_values[1]
                 ELSE IF idx >= n THEN sorted_values[n]
                 ELSE LET w_below == cumulative_weight[idx]
                          w_above == cumulative_weight[idx + 1]
                          fraction == RDiv(RSub(target_weight, w_below),
                                           RSub(w_above, w_below))
                      IN  RAdd(sorted_values[idx],
                               RMul(fraction, RSub(sorted_values[idx + 1],
                                                   sorted_values[idx])))

PercentileValues == {R(1), R(2), R(5), NaN}
PercentileWeights == {R(0), R(1), R(2), NaN}
Percentiles == {0, 10, 50, 90, 100}

InitPercentile ==
    /\ heap = <<>>
    /\ wprops = <<>>
    /\ sourceLas = <<>>
    /\ depthGrid = NoGrid
    /\ lastOp = Call("init", 0, "", "none", 0, <<>>, TRUE)
    /\ nLoads = 0
    /\ nResamples = 0
    /\ nFilters = 0
    /\ mgr = NewManager
    /\ \E values \in SeqsUpTo(PercentileValues, KernelLen),
          weights \in SeqsUpTo(PercentileWeights, KernelLen),
          percentile \in Percentiles :
         /\ Len(weights) = Len(values)
         /\ kernel = [fn |-> "none", values |-> values, weights |-> weights,
                      percentile |-> percentile, out |-> NaN]

\* weighted_percentile(values, weights, percentile)
WeightedPercentileCall ==
    /\ kernel.fn = "none"
    /\ kernel' = [kernel EXCEPT
                    !.fn = "weighted_percentile",
                    !.out = WeightedPercentile(kernel.values, kernel.weights,
                                               kernel.percentile)]
    /\ UNCHANGED <<prog, lastOp, nLoads, nResamples, nFilters, mgr>>

NextPercentile == WeightedPercentileCall

SpecPercentile == InitPercentile /\ [][NextPercentile]_vars

\* the ordinary median: the middle value, or the mean of the two middle values
Median(values) ==
    LET byValue == SortByValue([i \in DOMAIN values |-> [v |-> values[i], w |-> R(1)]])
        n == Len(values)
    IN  IF n % 2 = 1 THEN byValue[(n + 1) \div 2].v
        ELSE RDiv(RAdd(byValue[n \div 2].v, byValue[n \div 2 + 1].v), R(2))

\* C11 as stated: for a series of valid values, all with the same weight,
\* weighted_percentile(values, weights, 50) is the ordinary median of the values.
C11_P50IsMedian ==
    /\ kernel.fn = "weighted_percentile"
    /\ kernel.percentile = 50
    /\ kernel.values # <<>>
    /\ \A i \in DOMAIN kernel.values : ~IsNaN(kernel.values[i])
    /\ \A i \in DOMAIN kernel.weights :
          kernel.weights[i] = kernel.weights[1] /\ RLt(R(0), kernel.weights[i])
    => kernel.out = Median(kernel.values)

-----------------------------------------------------------------------------
(* Property._resample_to_grid, called on its own *)

AscendingSeqs(S, n) ==
    {s \in SeqsUpTo(S, n) : \A i \in 1..(Len(s) - 1) : s[i] < s[i + 1]}

SourceDepths == 1..(ResampleLen + 1)
ResampleValues == {R(10), R(30), NaN}
ResampleGrids == {<<>>, <<3>>, <<0, 2, 5>>, <<1, 2, 3, 4>>}

InitResample ==
    /\ heap = <<>>
    /\ wprops = <<>>
    /\ sourceLas = <<>>
    /\ depthGrid = NoGrid
    /\ lastOp = Call("init", 0, "", "none", 0, <<>>, TRUE)
    /\ nLoads = 0
    /\ nResamples = 0
    /\ nFilters = 0
    /\ mgr = NewManager
    /\ \E old_depth \in AscendingSeqs(SourceDepths, ResampleLen),
          new_depth \in ResampleGrids, method \in {"linear", "nearest"} :
         \E old_values \in [DOMAIN old_depth -> ResampleValues] :
            kernel = [fn |-> "none", old_depth |-> old_depth, old_values |-> old_values,
                      new_depth |-> new_depth, method |-> method,
                      raised |-> "none", out |-> <<>>]

\* Property._resample_to_grid(old_depth, old_values, new_depth, method)
ResampleToGridCall ==
    /\ kernel.fn = "none"
    /\ kernel' = [kernel EXCEPT
                    !.fn = "resample_to_grid",
                    !.out = ResampleToGrid(kernel.old_depth, kernel.old_values,
                                           kernel.new_depth, kernel.method)]
    /\ UNCHANGED <<prog, lastOp, nLoads, nResamples, nFilters, mgr>>

NextResample == ResampleToGridCall

SpecResample == InitResample /\ [][NextResample]_vars

Resampled == kernel.fn = "resample_to_grid"

\* the source depths that carry a value
ValidDepths(old_depth, old_values) ==
    {old_depth[j] : j \in {k \in DOMAIN old_depth : ~IsNaN(old_values[k])}}

\* C12: resample_to_grid returns one entry per grid depth; an entry at a grid depth
\* below the smallest or above the largest source depth that carries a value is
\* missing, and every entry is missing when no source depth carries a value.
C12_NoExtrapolation ==
    Resampled =>
        LET valid == ValidDepths(kernel.old_depth, kernel.old_values)
        IN  /\ Len(kernel.out) = Len(kernel.new_depth)
            /\ \A i \in DOMAIN kernel.new_depth :
                  (\/ valid = {}
                   \/ \A d \in valid : kernel.new_depth[i] < d
                   \/ \A d \in valid : kernel.new_depth[i] > d) => IsNaN(kernel.out[i])

\* the valid source range is narrower than the source, and the grid has a point in
\* the gap as well as a point that gets a value
C12_Witness ==
    /\ Resampled
    /\ kernel.old_depth = <<1, 2, 4>>
    /\ IsNaN(kernel.old_values[3])
    /\ kernel.new_depth = <<1, 2, 3, 4>>
    /\ ~IsNaN(kernel.out[2])
    /\ IsNaN(kernel.out[3])

SinglePoint ==
    Cardinality(ValidDepths(kernel.old_depth, kernel.old_values)) = 1

TheValue == kernel.old_values[CHOOSE k \in DOMAIN kernel.old_depth : ~IsNaN(kernel.old_values[k])]
TheDepth == kernel.old_depth[CHOOSE k \in DOMAIN kernel.old_depth : ~IsNaN(kernel.old_values[k])]

\* C13 as stated: with exactly one valid source point the result does not depend on
\* the method, nothing is raised, and every grid point gets that point's value.
C13_SinglePointEverywhere ==
    Resampled /\ SinglePoint =>
        /\ kernel.raised = "none"
        /\ Len(kernel.out) = Len(kernel.new_depth)
        /\ \A i \in DOMAIN kernel.new_depth : kernel.out[i] = TheValue

\* C13, amended: with exactly one valid source point the result does not depend on
\* the method and nothing is raised; a grid point at the depth of that point gets
\* its value, every other grid point is missing.
C13_SinglePointAtItsDepth ==
    Resampled /\ SinglePoint =>
        /\ kernel.raised = "none"
        /\ Len(kernel.out) = Len(kernel.new_depth)
        /\ \A i \in DOMAIN kernel.new_depth :
              kernel.out[i] = IF kernel.new_depth[i] = TheDepth THEN TheValue ELSE NaN

\* a linear resampling of a source with one valid point among missing ones, onto a
\* grid that has its depth and others
C13_Witness ==
    /\ Resampled /\ SinglePoint
    /\ kernel.method = "linear"
    /\ Len(kernel.old_depth) = 3
    /\ kernel.new_depth = <<1, 2, 3, 4>>
    /\ TheDepth = 2 /\ kernel.out[2] = TheValue

-----------------------------------------------------------------------------
(* Property._align_depths.  Depths are counted in twentieths of a depth unit and *)
(* sampled at tenths, so depths, their differences and the medians of the        *)
(* differences are integers.                                                      *)

AlignFallbackStep == 2      \* 0.1

\* np.median(np.diff(depth)), of an array of at least two samples
NpMedianDiff(depth) ==
    LET diffs == [i \in 1..(Len(depth) - 1) |->
                     [v |-> R(depth[i + 1] - depth[i]), w |-> R(0)]]
        sorted == SortByValue(diffs)
        n == Len(sorted)
    IN  IF n % 2 = 1 THEN sorted[(n + 1) \div 2].v.n
        ELSE (sorted[n \div 2].v.n + sorted[n \div 2 + 1].v.n) \div 2

AlignDepths_strict(self, other) ==
    LET min_depth == IMaxOf({IMinOf(Range(self.depth)), IMinOf(Range(other.depth))})
        max_depth == IMinOf({IMaxOf(Range(self.depth)), IMaxOf(Range(other.depth))})
        step_self == IF Len(self.depth) > 1 THEN NpMedianDiff(self.depth)
                     ELSE AlignFallbackStep
        step_other == IF Len(other.depth) > 1 THEN NpMedianDiff(other.depth)
                      ELSE AlignFallbackStep
        common_step == IMinOf({step_self, step_other})
        common_depth == ARange(min_depth, 2 * max_depth + common_step, common_step)
    IN  IF min_depth > max_depth
        THEN [raised |-> "DepthAlignmentError", common_depth |-> <<>>,
              resampled_self |-> <<>>, resampled_other |-> <<>>]
        ELSE [raised |-> "none", common_depth |-> common_depth,
              resampled_self |->
                  ResampleToGrid(self.depth, self.values, common_depth,
                                 ResampleMethod(self)),
              resampled_other |->
                  ResampleToGrid(other.depth, other.values, common_depth, "nearest")]

\* Property._align_depths, for ascending depth arrays that are not empty
AlignDepths(self, other) ==
    LET min_depth == IMaxOf({IMinOf(Range(self.depth)), IMinOf(Range(other.depth))})
        max_depth == IMinOf({IMaxOf(Range(self.depth)), IMaxOf(Range(other.depth))})
        step_self == IF Len(self.depth) > 1 THEN NpMedianDiff(self.depth)
                     ELSE AlignFallbackStep
        step_other == IF Len(other.depth) > 1 THEN NpMedianDiff(other.depth)
                      ELSE AlignFallbackStep
        common_step == IMinOf({step_self, step_other})
        common_depth == ARange(min_depth, 2 * max_depth + common_step, common_step)
    IN  IF min_depth >= max_depth
        THEN [raised |-> "DepthAlignmentError", common_depth |-> <<>>,
              resampled_self |-> <<>>, resampled_other |-> <<>>]
        ELSE [raised |-> "none", common_depth |-> common_depth,
              resampled_self |->
                  ResampleToGrid(self.depth, self.values, common_depth,
                                 ResampleMethod(self)),
              resampled_other |->
                  ResampleToGrid(other.depth, other.values, common_depth, "nearest")]

AlignDepthValues == {0, 2, 4, 6, 8}

AlignProperty(name, depth, prop_type, values) ==
    NewProperty(name, depth, values, FALSE, prop_type, NullDefault, NoLabels, "", "", name)

InitAlign ==
    /\ heap = <<>>
    /\ wprops = <<>>
    /\ sourceLas = <<>>
    /\ depthGrid = NoGrid
    /\ lastOp = Call("init", 0, "", "none", 0, <<>>, TRUE)
    /\ nLoads = 0
    /\ nResamples = 0
    /\ nFilters = 0
    /\ mgr = NewManager
    /\ \E a \in AscendingSeqs(AlignDepthValues, AlignLen) \ {<<>>},
          b \in AscendingSeqs(AlignDepthValues, AlignLen) \ {<<>>},
          prop_type \in {"continuous", "discrete"} :
         kernel = [fn |-> "none",
                   self |-> AlignProperty("A", a, prop_type, [i \in DOMAIN a |-> R(10 * i)]),
                   other |-> AlignProperty("B", b, "discrete", [i \in DOMAIN b |-> R(i % 2)]),
                   out |-> <<>>]

\* a._align_depths(b)
AlignDepthsCall ==
    /\ kernel.fn = "none"
    /\ kernel' = [kernel EXCEPT !.fn = "align_depths",
                                !.out = AlignDepths(kernel.self, kernel.other)]
    /\ UNCHANGED <<prog, lastOp, nLoads, nResamples, nFilters, mgr>>

NextAlign == AlignDepthsCall

SpecAlign == InitAlign /\ [][NextAlign]_vars

Aligned == kernel.fn = "align_depths"

\* the overlapping range [lo, hi] of the two depth ranges (empty when lo > hi), and
\* the finer of the two spacings
OverlapLo == IMaxOf({kernel.self.depth[1], kernel.other.depth[1]})
OverlapHi == IMinOf({kernel.self.depth[Len(kernel.self.depth)],
                     kernel.other.depth[Len(kernel.other.depth)]})

\* C14 as stated: align_depths raises DepthAlignmentError exactly when the two depth
\* ranges share no depth; otherwise it returns a common grid, every point of which
\* lies inside the overlapping range.
C14_RaisesIffDisjoint ==
    Aligned =>
        /\ kernel.out.raised = "DepthAlignmentError" <=> OverlapLo > OverlapHi
        /\ kernel.out.raised = "none" =>
              /\ kernel.out.common_depth # <<>>
              /\ \A i \in DOMAIN kernel.out.common_depth :
                    /\ OverlapLo <= kernel.out.common_depth[i]
                    /\ kernel.out.common_depth[i] <= OverlapHi

\* C14, amended: for ascending depth arrays, align_depths raises DepthAlignmentError
\* exactly when the two depth ranges share no depth or a single depth; otherwise it
\* returns a common grid and both value arrays on it; the grid starts at the lower
\* end of the overlapping range, and every point of it lies at or above that end
\* and less than half a grid step above the upper end (only the last point can
\* lie beyond the overlapping range).
C14_RaisesIffNoInterval ==
    Aligned =>
        LET grid == kernel.out.common_depth
        IN  /\ kernel.out.raised \in {"none", "DepthAlignmentError"}
            /\ kernel.out.raised = "DepthAlignmentError" <=> OverlapLo >= OverlapHi
            /\ kernel.out.raised = "none" =>
                  /\ grid # <<>>
                  /\ grid[1] = OverlapLo
                  /\ Len(kernel.out.resampled_self) = Len(grid)
                  /\ Len(kernel.out.resampled_other) = Len(grid)
                  /\ \A i \in 1..(Len(grid) - 1) :
                        grid[i] < grid[i + 1] /\ grid[i] <= OverlapHi
                  /\ Len(grid) >= 2 =>
                        2 * grid[Len(grid)] < 2 * OverlapHi + (grid[2] - grid[1])

\* ranges that overlap in an interval the step does not divide: the last grid
\* point is beyond the overlap
C14_Witness ==
    /\ Aligned
    /\ kernel.out.raised = "none"
    /\ kernel.out.common_depth[Len(kernel.out.common_depth)] > OverlapHi

-----------------------------------------------------------------------------
(* Well.to_dataframe *)

\* Property._apply_labels: NaN stays, a value with a label becomes the label, any
\* other value becomes int(value)
ApplyLabels(prop, values) ==
    IF prop.labels.none THEN values
    ELSE [i \in DOMAIN values |->
             LET val == values[i]
             IN  IF IsNaN(val) THEN NaN
                 ELSE IF RInt(val) \in DOMAIN prop.labels.map
                      THEN [label |-> prop.labels.map[RInt(val)]]
                      ELSE R(RInt(val))]

\* an include or exclude argument: None, or a list of names
NoList == [given |-> FALSE, names |-> {}]
NameList(names) == [given |-> TRUE, names |-> names]

\* well.py:584-607: the properties exported, in insertion order
PropsToExport(w, include, exclude) ==
    Select(w, [i \in DOMAIN w |->
                  IF include.given THEN w[i].key \in include.names
                  ELSE IF exclude.given THEN w[i].key \notin exclude.names
                  ELSE TRUE])

GridMismatch_skipped(h, props_to_export, depth) == FALSE

\* well.py:609-617: some exported property is not on the reference depth
GridMismatch(h, props_to_export, depth) ==
    \E i \in DOMAIN props_to_export : h[props_to_export[i].id].depth # depth

NoTable == [empty |-> TRUE, DEPT |-> <<>>, columns |-> <<>>]

\* well.py:619-628.  Each column carries the depth array of its property beside
\* the values: pandas keeps only the values.
BuildTable(h, props_to_export, depth, discrete_labels) ==
    [empty |-> FALSE, DEPT |-> depth,
     columns |-> [i \in DOMAIN props_to_export |->
                     LET prop == h[props_to_export[i].id]
                     IN  [name |-> props_to_export[i].key,
                          depth |-> prop.depth,
                          values |-> IF discrete_labels /\ ~prop.labels.none
                                        /\ DOMAIN prop.labels.map # {}
                                     THEN ApplyLabels(prop, prop.values)
                                     ELSE prop.values]]]

\* Well.to_dataframe; reference_property "" is None
ToDataFrame(h, w, grid, reference_property, include, exclude, auto_resample, discrete_labels) ==
    LET stay(raised) == [raised |-> raised, heap |-> h, depthGrid |-> grid, table |-> NoTable]
    IN  IF w = <<>> THEN stay("none")
        ELSE IF include.given /\ exclude.given THEN stay("ValueError")
        ELSE IF reference_property # "" /\ reference_property \notin WellKeys(w)
        THEN stay("PropertyNotFoundError")
        ELSE
        LET ref_prop == IF reference_property = "" THEN h[w[1].id]
                        ELSE h[WellId(w, reference_property)]
            depth == ref_prop.depth
            h2 == IF auto_resample THEN ResampleAll(h, w, depth) ELSE h
            grid2 == IF auto_resample THEN depth ELSE grid
            props_to_export == PropsToExport(w, include, exclude)
        IN  IF include.given /\ include.names \ WellKeys(w) # {}
            THEN [raised |-> "PropertyNotFoundError", heap |-> h2, depthGrid |-> grid2,
                  table |-> NoTable]
            ELSE IF ~auto_resample /\ GridMismatch(h2, props_to_export, depth)
            THEN [raised |-> "WellError", heap |-> h2, depthGrid |-> grid2,
                  table |-> NoTable]
            ELSE [raised |-> "none", heap |-> h2, depthGrid |-> grid2,
                  table |-> BuildTable(h2, props_to_export, depth, discrete_labels)]

FrameReferences == {"", "PHIE", "Zone", "Missing"}
FrameLists == {NoList, NameList({"PHIE"}), NameList({"Zone", "Missing"})}

FrameArgs ==
    [reference_property : FrameReferences, include : FrameLists, exclude : FrameLists,
     auto_resample : BOOLEAN, discrete_labels : BOOLEAN]

\* well.to_dataframe(reference_property, include, exclude, auto_resample,
\* discrete_labels)
ToDataFrameCall ==
    /\ lastOp.changed
    /\ \E a \in FrameArgs :
         LET r == ToDataFrame(heap, wprops, depthGrid, a.reference_property, a.include,
                              a.exclude, a.auto_resample, a.discrete_labels)
         IN  /\ heap' = r.heap
             /\ depthGrid' = r.depthGrid
             /\ lastOp' = Call("to_dataframe", 0, a, r.raised, 0, r.table,
                               <<r.heap, r.depthGrid>> # <<heap, depthGrid>>)
    /\ UNCHANGED <<wprops, sourceLas, nLoads, nResamples, nFilters, kernel, mgr>>

NextFrame == LoadLas \/ Resample \/ ToDataFrameCall

SpecFrame == Init /\ [][NextFrame]_vars

-----------------------------------------------------------------------------
(* Claims about Well.resample and Well.to_dataframe *)

ResampleReturned == lastOp.op = "resample" /\ lastOp.raised = "none"
FrameCalled == lastOp.op = "to_dataframe"

\* C15: right after Well.resample returns, every property of the well has the one
\* shared grid as its depth and as many values as the grid has points, and
\* to_dataframe(auto_resample=False) raises no WellError whatever its other arguments.
C15_ResampleSharesGrid ==
    ResampleReturned =>
        /\ \A i \in DOMAIN wprops :
              /\ heap[wprops[i].id].depth = depthGrid
              /\ Len(heap[wprops[i].id].values) = Len(depthGrid)
        /\ \A a \in FrameArgs :
              ~a.auto_resample =>
                  ToDataFrame(heap, wprops, depthGrid, a.reference_property, a.include,
                              a.exclude, FALSE, a.discrete_labels).raised # "WellError"

\* properties of two files with different depths, resampled
C15_Witness ==
    /\ ResampleReturned
    /\ lastOp.changed
    /\ Len(sourceLas) = 2
    /\ sourceLas[1] # sourceLas[2]
    /\ Len(wprops) >= 2
    /\ \E a \in FrameArgs :
          /\ ~a.auto_resample
          /\ LET r == ToDataFrame(heap, wprops, depthGrid, a.reference_property,
                                  a.include, a.exclude, FALSE, a.discrete_labels)
             IN  r.raised = "none" /\ Len(r.table.columns) >= 2

\* the reference property of the last to_dataframe call, when there is one
HasReference ==
    /\ wprops # <<>>
    /\ lastOp.arg.reference_property \in WellKeys(wprops) \cup {""}
RefDepth ==
    IF lastOp.arg.reference_property = "" THEN heap[wprops[1].id].depth
    ELSE heap[WellId(wprops, lastOp.arg.reference_property)].depth

\* the names the last to_dataframe call selects
Selected ==
    IF lastOp.arg.include.given THEN WellKeys(wprops) \cap lastOp.arg.include.names
    ELSE IF lastOp.arg.exclude.given THEN WellKeys(wprops) \ lastOp.arg.exclude.names
    ELSE WellKeys(wprops)

\* every column of a returned table is on the table's depth
OneGrid ==
    (lastOp.raised = "none" /\ ~lastOp.result.empty) =>
        \A i \in DOMAIN lastOp.result.columns :
            /\ lastOp.result.columns[i].depth = lastOp.result.DEPT
            /\ Len(lastOp.result.columns[i].values) = Len(lastOp.result.DEPT)

\* C16 as stated: to_dataframe(auto_resample=False) raises WellError whenever some
\* property of the well has a depth array different from the reference property's,
\* and never returns a table that mixes depth grids.
C16_AnyMismatchRaises ==
    (FrameCalled /\ ~lastOp.arg.auto_resample /\ HasReference) =>
        /\ (\E key \in WellKeys(wprops) : heap[WellId(wprops, key)].depth # RefDepth)
              => lastOp.raised = "WellError"
        /\ OneGrid

\* C16, amended: when include and exclude are not both given and the reference
\* property and every included name exist, to_dataframe(auto_resample=False) raises
\* WellError exactly when some property selected for export has a depth array
\* different from the reference property's; no call of to_dataframe returns a table
\* that mixes depth grids.
C16_SelectedMismatchRaises ==
    FrameCalled =>
        /\ OneGrid
        /\ (/\ ~lastOp.arg.auto_resample
            /\ HasReference
            /\ ~(lastOp.arg.include.given /\ lastOp.arg.exclude.given)
            /\ lastOp.arg.include.names \subseteq WellKeys(wprops))
           => /\ lastOp.raised \in {"none", "WellError"}
              /\ lastOp.raised = "WellError" <=>
                    \E key \in Selected : heap[WellId(wprops, key)].depth # RefDepth

\* a table returned although a property left out of it is on another depth
C16_Witness ==
    /\ FrameCalled
    /\ ~lastOp.arg.auto_resample
    /\ lastOp.raised = "none"
    /\ ~lastOp.result.empty
    /\ Len(lastOp.result.columns) >= 1
    /\ \E key \in WellKeys(wprops) \ Selected :
          heap[WellId(wprops, key)].depth # RefDepth

\* C17: to_dataframe with both include and exclude given raises ValueError on every
\* well, a well without properties included, and resamples nothing before it does.
C17_BothGivenRaises ==
    (FrameCalled /\ lastOp.arg.include.given /\ lastOp.arg.exclude.given) =>
        /\ lastOp.raised = "ValueError"
        /\ ~lastOp.changed

\* C18 as stated: resample on a well without properties raises WellError whatever
\* its arguments, and leaves the well unchanged.
C18_EmptyWellRaises ==
    (lastOp.op = "resample" /\ wprops = <<>>) =>
        /\ lastOp.raised = "WellError"
        /\ ~lastOp.changed

\* C18, amended: resample on a well without properties raises WellError exactly
\* when neither depth_grid nor depth_range is given, and then leaves the well
\* unchanged; with either of them it returns and the grid becomes the well's grid.
C18_EmptyWellRaisesWithoutGrid ==
    (lastOp.op = "resample" /\ wprops = <<>>) =>
        /\ lastOp.raised \in {"none", "WellError"}
        /\ lastOp.raised = "WellError" <=>
              (lastOp.arg.depth_grid = NoGrid /\ lastOp.arg.depth_range = NoRange)
        /\ lastOp.raised = "WellError" => ~lastOp.changed
        /\ lastOp.raised = "none" =>
              /\ depthGrid # NoGrid
              /\ lastOp.arg.depth_grid # NoGrid => depthGrid = lastOp.arg.depth_grid

\* resample with a grid of the caller on a well without properties
C18_Witness ==
    /\ lastOp.op = "resample"
    /\ wprops = <<>>
    /\ lastOp.raised = "none"
    /\ lastOp.arg.depth_grid # NoGrid
    /\ depthGrid = lastOp.arg.depth_grid

-----------------------------------------------------------------------------
(* Properties kept by source, and the statistics of a name over the wells of a    *)
(* manager.  Each well keeps, for every source ingested into it, the properties  *)
(* of that source by name; the same name may stand under several sources.        *)

SourceNames == {"log", "core"}
SourceWells == {"well_A", "well_B"}
SourceCurveNames == {"PHIE", "Zone"}

\* the Property a source holds for a name: one Property per curve per source
SourceProperty(well, source, name) ==
    LET depth == IF source = "log" THEN <<0, 1, 2, 3>> ELSE <<1, 3>>
        base == IF well = "well_A" THEN 10 ELSE 12
        values == IF name = "Zone" THEN [i \in DOMAIN depth |-> R(i % 2)]
                  ELSE IF source = "log" THEN [i \in DOMAIN depth |-> R(base * i)]
                  ELSE [i \in DOMAIN depth |-> IF i = 1 THEN NaN ELSE R(base + 7)]
    IN  NewProperty(name, depth, values, TRUE,
                    IF name = "Zone" THEN "discrete"
                    ELSE IF source = "log" THEN "continuous" ELSE "sampled",
                    NullDefault, NoLabels, source, source, name)

\* a source ingested into a well: the well is made when its name is first seen
IngestSource(wells, well, source, names) ==
    LET properties == [name \in names |-> SourceProperty(well, source, name)]
        old == IF well \in DOMAIN wells THEN wells[well].sources ELSE <<>>
    IN  (well :> [name |-> well, sources |-> (source :> properties) @@ old]) @@ wells

\* the sources of a well that hold the name
SourcesWith(w, name) == {src \in DOMAIN w.sources : name \in DOMAIN w.sources[src]}

SourceStatistics_neverKeyed(wells, name, nested) ==
    LET having == {well \in DOMAIN wells : SourcesWith(wells[well], name) # {}}
    IN  [well \in having |->
            LET srcs == SourcesWith(wells[well], name)
                first == CHOOSE src \in srcs : TRUE
            IN  [keyed |-> FALSE,
                 value |-> SumsAvg(<<>>, wells[well].sources[first][name])]]

\* the statistics of a name asked of the manager directly: per well that has the
\* name, keyed by source when the name stands under two or more sources or when
\* nested is asked for, and the one source's own result otherwise
SourceStatistics(wells, name, nested) ==
    LET having == {well \in DOMAIN wells : SourcesWith(wells[well], name) # {}}
    IN  [well \in having |->
            LET srcs == SourcesWith(wells[well], name)
            IN  IF Cardinality(srcs) > 1 \/ nested
                THEN [keyed |-> TRUE,
                      value |-> [src \in srcs |->
                                    SumsAvg(<<>>, wells[well].sources[src][name])]]
                ELSE LET only == CHOOSE src \in srcs : TRUE
                     IN  [keyed |-> FALSE,
                          value |-> SumsAvg(<<>>, wells[well].sources[only][name])]]

InitSources ==
    /\ heap = <<>>
    /\ wprops = <<>>
    /\ sourceLas = <<>>
    /\ depthGrid = NoGrid
    /\ lastOp = Call("init", 0, "", "none", 0, <<>>, TRUE)
    /\ nLoads = 0
    /\ nResamples = 0
    /\ nFilters = 0
    /\ kernel = NoKernel
    /\ mgr = NewManager

\* a source is ingested into a well
IngestCall ==
    /\ lastOp.changed
    /\ \E well \in SourceWells, source \in SourceNames,
          names \in (SUBSET SourceCurveNames) \ {{}} :
         /\ well \in DOMAIN mgr.wells => source \notin DOMAIN mgr.wells[well].sources
         /\ mgr' = [mgr EXCEPT !.wells = IngestSource(mgr.wells, well, source, names)]
         /\ lastOp' = Call("ingest", 0, [well |-> well, source |-> source], "none", 0,
                           <<>>, TRUE)
    /\ UNCHANGED <<prog, nLoads, nResamples, nFilters, kernel>>

\* manager.<name>.sums_avg(nested=...)
StatisticsCall ==
    /\ lastOp.changed
    /\ \E name \in SourceCurveNames, nested \in BOOLEAN :
         lastOp' = Call("statistics", 0, [name |-> name, nested |-> nested], "none", 0,
                        SourceStatistics(mgr.wells, name, nested), FALSE)
    /\ UNCHANGED <<prog, nLoads, nResamples, nFilters, kernel, mgr>>

NextSources == IngestCall \/ StatisticsCall

SpecSources == InitSources /\ [][NextSources]_vars

-----------------------------------------------------------------------------
(* WellDataManager: load_las, load, save.  In this specification mgr holds the    *)
(* manager and, as disk, the project folders it reads and writes: for every       *)
(* folder that exists, the LAS files directly in it (top) and the LAS files in    *)
(* its well_* folders (wells).                                                    *)

\* utils.sanitize_well_name, on the well names of this model
SanitizeWellName(name) == IF name = "W-1" THEN "W_1" ELSE IF name = "W-2" THEN "W_2" ELSE name

\* Well.__init__
NewWell(name, sanitized_name) == [name |-> name, sanitized_name |-> sanitized_name, heap |-> <<>>, wprops |-> <<>>, sources |-> <<>>]

\* a file whose header names no well
NoNameLas == [LogLas EXCEPT !.well_name = "", !.filepath = "noname.las"]

ManagerLasFiles == {LogLas, OtherLas, NoNameLas}
LasByPath(filepath) == CHOOSE las \in ManagerLasFiles : las.filepath = filepath

\* WellDataManager.load_las of one file
ManagerLoadLas(m, las, tie) ==
    IF las.well_name = "" THEN [raised |-> "LasFileError", mgr |-> m]
    ELSE LET well_key == "well_" \o SanitizeWellName(las.well_name)
             old == IF well_key \in DOMAIN m.wells THEN m.wells[well_key]
                    ELSE NewWell(las.well_name, SanitizeWellName(las.well_name))
             r == WellLoadLas(old.heap, old.wprops, old.sources, old.name, las, tie)
         IN  [raised |-> r.raised,
              mgr |-> [m EXCEPT !.wells = (well_key :> [old EXCEPT !.heap = r.heap,
                                                                   !.wprops = r.wprops,
                                                                   !.sources = r.sources])
                                           @@ m.wells,
                                !.name_mapping = IF well_key \in DOMAIN m.wells THEN @
                                                 ELSE (las.well_name :> well_key) @@ @]]

\* manager.py:89-92, 397-405: the files one after the other, up to the first that
\* raises
RECURSIVE ManagerLoadFiles(_, _, _)
ManagerLoadFiles(m, files, tie) ==
    IF files = <<>> THEN [raised |-> "none", mgr |-> m]
    ELSE LET r == ManagerLoadLas(m, LasByPath(Head(files)), tie)
         IN  IF r.raised # "none" THEN r ELSE ManagerLoadFiles(r.mgr, Tail(files), tie)

\* sorted(...glob(...)): the one ascending order of a set of file names
FileOrder == <<"log.las", "noname.las", "other.las">>
SortedFiles(files) == Select(FileOrder, [i \in DOMAIN FileOrder |-> FileOrder[i] \in files])

\* the orders in which load reads the files of a folder: the well folders sorted,
\* or, without well folders, the files of the folder in the order glob yields
LoadOrders(folder) ==
    IF folder.wells # {} THEN {SortedFiles(folder.wells)}
    ELSE {order \in SeqsUpTo(folder.top, Cardinality(folder.top)) :
             Len(order) = Cardinality(folder.top) /\ Range(order) = folder.top}

\* WellDataManager.load(path), reading the files in the given order
ManagerLoad(m, path, order, tie) ==
    IF path \notin DOMAIN m.disk THEN [raised |-> "FileNotFoundError", mgr |-> m]
    ELSE ManagerLoadFiles([m EXCEPT !.wells = <<>>, !.name_mapping = <<>>,
                                    !.project_path = path],
                          order, tie)

\* Well.export_sources: one file per source of the well
ExportSources(well) == Range(well.sources)

ManagerSave_keepsPath(m, path) ==
    IF path = "" /\ m.project_path = ""
    THEN [raised |-> "ValueError", save_path |-> "", mgr |-> m]
    ELSE LET save_path == IF path = "" THEN m.project_path ELSE path
             before == IF save_path \in DOMAIN m.disk THEN m.disk[save_path]
                       ELSE [top |-> {}, wells |-> {}]
             written == UNION {ExportSources(m.wells[k]) : k \in DOMAIN m.wells}
         IN  [raised |-> "none", save_path |-> save_path,
              mgr |-> [m EXCEPT !.project_path = save_path,
                                !.disk = (save_path :> [before EXCEPT !.wells = @ \cup written])
                                         @@ m.disk]]

\* WellDataManager.save(path); path "" is None
ManagerSave(m, path) ==
    IF path = "" /\ m.project_path = ""
    THEN [raised |-> "ValueError", save_path |-> "", mgr |-> m]
    ELSE LET save_path == IF path = "" THEN m.project_path ELSE path
             before == IF save_path \in DOMAIN m.disk THEN m.disk[save_path]
                       ELSE [top |-> {}, wells |-> {}]
             written == UNION {ExportSources(m.wells[k]) : k \in DOMAIN m.wells}
         IN  [raised |-> "none", save_path |-> save_path,
              mgr |-> [m EXCEPT !.disk = (save_path :> [before EXCEPT !.wells = @ \cup written])
                                         @@ m.disk]]

ProjectPaths == {"projA", "projB", "projC"}

\* projA was saved by a manager, projB holds two files of its own, projC is not there
InitialDisk ==
    ("projA" :> [top |-> {}, wells |-> {"log.las", "other.las"}])
    @@ ("projB" :> [top |-> {"log.las", "noname.las"}, wells |-> {}])

\* WellDataManager(); kernel.loaded records the path of the latest load() of a
\* folder that was there
InitManager ==
    /\ heap = <<>>
    /\ wprops = <<>>
    /\ sourceLas = <<>>
    /\ depthGrid = NoGrid
    /\ lastOp = Call("init", 0, "", "none", 0, <<>>, TRUE)
    /\ nLoads = 0
    /\ nResamples = 0
    /\ nFilters = 0
    /\ kernel = [fn |-> "manager", loaded |-> ""]
    /\ mgr = NewManager @@ [disk |-> InitialDisk]

\* manager.load_las(filepath)
ManagerLoadLasCall ==
    /\ nLoads < MaxLoads
    /\ \E las \in ManagerLasFiles :
         LET r == ManagerLoadLas(mgr, las, "existing")
         IN  /\ mgr' = r.mgr
             /\ lastOp' = Call("manager.load_las", 0, las.filepath, r.raised, 0, <<>>,
                               r.mgr # mgr)
    /\ nLoads' = nLoads + 1
    /\ UNCHANGED <<prog, nResamples, nFilters, kernel>>

\* manager.load(path)
ManagerLoadCall ==
    /\ \E path \in ProjectPaths :
         \E order \in (IF path \in DOMAIN mgr.disk THEN LoadOrders(mgr.disk[path])
                       ELSE {<<>>}) :
            LET r == ManagerLoad(mgr, path, order, "existing")
            IN  /\ mgr' = r.mgr
                /\ kernel' = IF path \in DOMAIN mgr.disk
                             THEN [kernel EXCEPT !.loaded = path] ELSE kernel
                /\ lastOp' = Call("manager.load", 0, path, r.raised, 0, <<>>, r.mgr # mgr)
    /\ UNCHANGED <<prog, nLoads, nResamples, nFilters>>

\* manager.save(path)
ManagerSaveCall ==
    /\ \E path \in {"", "projA", "projC"} :
         LET r == ManagerSave(mgr, path)
         IN  /\ mgr' = r.mgr
             /\ lastOp' = Call("manager.save", 0, path, r.raised, 0, r.save_path,
                               r.mgr # mgr)
    /\ UNCHANGED <<prog, nLoads, nResamples, nFilters, kernel>>

NextManager == ManagerLoadLasCall \/ ManagerLoadCall \/ ManagerSaveCall

SpecManager == InitManager /\ [][NextManager]_vars

\* C20: save() without a path raises ValueError when no load() of a folder that
\* was there has been made on the manager, whatever load_las calls were made; after
\* such a load it raises no ValueError and writes to the path of the latest one.
C20_SaveNeedsLoadedProject ==
    (lastOp.op = "manager.save" /\ lastOp.arg = "") =>
        /\ kernel.loaded = "" => lastOp.raised = "ValueError"
        /\ kernel.loaded # "" =>
              /\ lastOp.raised = "none"
              /\ lastOp.result = kernel.loaded

\* save() without a path after a load_las, a save to a new path and a load of
\* projB, which raised on a file of the folder after the path was stored
C20_Witness ==
    /\ lastOp.op = "manager.save"
    /\ lastOp.arg = ""
    /\ lastOp.raised = "none"
    /\ lastOp.result = "projB"
    /\ nLoads > 0
    /\ "projC" \in DOMAIN mgr.disk

-----------------------------------------------------------------------------
(* WellDataManager: add_well, get_well, remove_well and attribute access *)

\* WellDataManager.add_well
ManagerAddWell(m, well_name) ==
    LET sanitized_name == SanitizeWellName(well_name)
        well_key == "well_" \o sanitized_name
    IN  IF well_key \in DOMAIN m.wells THEN m
        ELSE [m EXCEPT !.wells = (well_key :> NewWell(well_name, sanitized_name)) @@ m.wells,
                       !.name_mapping = (well_name :> well_key) @@ m.name_mapping]

\* WellDataManager.get_well: the key of the well found, "" when it raises KeyError.
\* None of the names asked for here starts with well_ without being a key or the
\* name of a well.
GetWell(m, name) ==
    IF name \in DOMAIN m.wells THEN name
    ELSE IF ("well_" \o name) \in DOMAIN m.wells THEN "well_" \o name
    ELSE IF ("well_" \o SanitizeWellName(name)) \in DOMAIN m.wells
         THEN "well_" \o SanitizeWellName(name)
    ELSE ""

\* WellDataManager.remove_well
ManagerRemoveWell(m, name) ==
    IF GetWell(m, name) = "" THEN [raised |-> "KeyError", mgr |-> m]
    ELSE LET well == m.wells[GetWell(m, name)]
             well_key == "well_" \o well.sanitized_name
         IN  [raised |-> "none",
              mgr |-> [m EXCEPT !.wells = [k \in DOMAIN m.wells \ {well_key} |-> m.wells[k]],
                                !.name_mapping = [n \in DOMAIN m.name_mapping \ {well.name}
                                                     |-> m.name_mapping[n]]]]

\* what the class and every instance define: found by the normal lookup
ManagerAttributes ==
    {"wells", "load_las", "load_tops", "add_well", "get_well", "remove_well", "save",
     "load", "_wells", "_name_mapping", "_project_path"}

\* the names asked for that start with an underscore
PrivateNames == {"_wells", "_name_mapping", "_project_path", "_missing"}

ManagerGetAttr_stripsPrefix(m, name) ==
    IF name \in ManagerAttributes THEN [raised |-> "none", attribute |-> name, well |-> ""]
    ELSE IF name \in PrivateNames
    THEN [raised |-> "AttributeError", attribute |-> "", well |-> ""]
    ELSE IF GetWell(m, name) # ""
    THEN [raised |-> "none", attribute |-> "", well |-> GetWell(m, name)]
    ELSE [raised |-> "AttributeError", attribute |-> "", well |-> ""]

\* getattr(manager, name): the normal lookup, then WellDataManager.__getattr__
ManagerGetAttr(m, name) ==
    IF name \in ManagerAttributes THEN [raised |-> "none", attribute |-> name, well |-> ""]
    ELSE IF name \in PrivateNames
    THEN [raised |-> "AttributeError", attribute |-> "", well |-> ""]
    ELSE IF name \in DOMAIN m.wells THEN [raised |-> "none", attribute |-> "", well |-> name]
    ELSE [raised |-> "AttributeError", attribute |-> "", well |-> ""]

AddWellNames == {"W-1", "well_W_1", "save"}
RemoveWellNames == {"W-1", "W_2", "well_W_1", "save", "W-9"}
GetAttrNames ==
    {"well_W_1", "well_W_2", "well_well_W_1", "well_save", "W_1", "W_2", "save",
     "_missing"}

\* manager.add_well(well_name)
AddWellCall ==
    /\ \E well_name \in AddWellNames :
         /\ mgr' = ManagerAddWell(mgr, well_name)
         /\ lastOp' = Call("manager.add_well", 0, well_name, "none", 0,
                           "well_" \o SanitizeWellName(well_name), mgr' # mgr)
    /\ UNCHANGED <<prog, nLoads, nResamples, nFilters, kernel>>

\* manager.remove_well(name)
RemoveWellCall ==
    /\ \E name \in RemoveWellNames :
         LET r == ManagerRemoveWell(mgr, name)
         IN  /\ mgr' = r.mgr
             /\ lastOp' = Call("manager.remove_well", 0, name, r.raised, 0, <<>>,
                               r.mgr # mgr)
    /\ UNCHANGED <<prog, nLoads, nResamples, nFilters, kernel>>

\* getattr(manager, name)
GetAttrCall ==
    /\ \E name \in GetAttrNames :
         LET r == ManagerGetAttr(mgr, name)
         IN  lastOp' = Call("manager.getattr", 0, name, r.raised, 0, r, FALSE)
    /\ UNCHANGED <<prog, nLoads, nResamples, nFilters, kernel, mgr>>

NextNaming ==
    ManagerLoadLasCall \/ ManagerLoadCall \/ AddWellCall \/ RemoveWellCall \/ GetAttrCall

SpecNaming == InitManager /\ [][NextNaming]_vars

KeysArePrefixed ==
    \A key \in DOMAIN mgr.wells : key = "well_" \o mgr.wells[key].sanitized_name

SanitizedNames == {mgr.wells[key].sanitized_name : key \in DOMAIN mgr.wells}

\* C21 as stated: every key of manager.wells is well_ followed by the sanitized
\* name of the well under it; attribute access by a key returns that well, and
\* attribute access by the bare sanitized name of a well raises AttributeError.
C21_BareNameRaises ==
    /\ KeysArePrefixed
    /\ lastOp.op = "manager.getattr" =>
          /\ lastOp.arg \in DOMAIN mgr.wells =>
                lastOp.raised = "none" /\ lastOp.result.well = lastOp.arg
          /\ lastOp.arg \in SanitizedNames => lastOp.raised = "AttributeError"

\* C21, amended: the same, but attribute access by the bare sanitized name of a well
\* raises AttributeError only when that name is neither a key of manager.wells
\* itself nor an attribute of the manager; when it is a key it returns the well
\* under that key, and when it is an attribute it returns the attribute.
C21_BareNameRaisesUnlessKey ==
    /\ KeysArePrefixed
    /\ lastOp.op = "manager.getattr" =>
          /\ lastOp.arg \in DOMAIN mgr.wells =>
                lastOp.raised = "none" /\ lastOp.result.well = lastOp.arg
          /\ (lastOp.arg \in SanitizedNames /\ lastOp.arg \notin DOMAIN mgr.wells
              /\ lastOp.arg \notin ManagerAttributes) => lastOp.raised = "AttributeError"
          /\ (lastOp.arg \in SanitizedNames /\ lastOp.arg \in ManagerAttributes) =>
                lastOp.raised = "none" /\ lastOp.result.attribute = lastOp.arg

\* attribute access by the bare sanitized name of a loaded well, after a well was
\* removed
C21_Witness ==
    /\ lastOp.op = "manager.getattr"
    /\ lastOp.arg = "W_2"
    /\ lastOp.arg \in SanitizedNames
    /\ lastOp.raised = "AttributeError"
    /\ "well_W_1" \notin DOMAIN mgr.wells
    /\ "well_well_W_1" \in DOMAIN mgr.wells

-----------------------------------------------------------------------------
(* Properties of the groups of sums_avg() *)

\* the samples of S where filter f has the value v
SamplesAt(f, S, v) == {i \in S : f.values[i] = v}

\* the non-missing values of filter f on the samples S
ValuesOn(f, S) == {f.values[i] : i \in {j \in S : ~IsNaN(f.values[j])}}

\* t is what is to come from the filter at level on for the samples S: the flat
\* statistics of S where the filter has no value on S, and otherwise branches, each
\* under the key of one of the filter's values and over the samples of S that have
\* that value
RECURSIVE StopsOrGroups(_, _, _, _, _)
StopsOrGroups(t, h, q, level, S) ==
    IF level > Len(q.secondary_properties) THEN LeafHolds(t, q, S)
    ELSE LET f == h[q.secondary_properties[level]]
         IN  IF ValuesOn(f, S) = {} THEN LeafHolds(t, q, S)
             ELSE /\ ~IsFlat(t)
                  /\ DOMAIN t # {}
                  /\ \A key \in DOMAIN t :
                        \E v \in ValuesOn(f, S) :
                            /\ key = KeyFor(f, v)
                            /\ StopsOrGroups(t[key], h, q, level + 1, SamplesAt(f, S, v))

\* the depth_samples of the leaves of a tree, added up
RECURSIVE LeafSamples(_)
RECURSIVE LeafSamplesOf(_, _)
LeafSamples(t) == IF IsFlat(t) THEN t.depth_samples ELSE LeafSamplesOf(t, DOMAIN t)
LeafSamplesOf(t, keys) ==
    IF keys = {} THEN 0
    ELSE LET k == CHOOSE x \in keys : TRUE
         IN  LeafSamples(t[k]) + LeafSamplesOf(t, keys \ {k})

\* C22: in sums_avg(), where the filter of a level has no non-missing value among
\* the samples of the current mask, the result there is the flat statistics of the
\* current mask and no deeper filter is applied; where it has one, the samples whose
\* filter value is missing are in no group of that level.
C22_StopsWhereFilterMissing ==
    (SumsAvgDone /\ heap[lastOp.self].secondary_properties # <<>>) =>
        StopsOrGroups(lastOp.result, heap, heap[lastOp.self], 1,
                      DOMAIN heap[lastOp.self].depth)

\* two filters: the outer one has values everywhere, the inner one has a value
\* under one group of the outer, with a sample where it is missing, and none under
\* another
C22_Witness ==
    /\ SumsAvgDone
    /\ Len(heap[lastOp.self].secondary_properties) = 2
    /\ LET q == heap[lastOp.self]
           outer == heap[q.secondary_properties[1]]
           inner == heap[q.secondary_properties[2]]
       IN  /\ \A i \in DOMAIN outer.values : ~IsNaN(outer.values[i])
           /\ \E a, b \in DOMAIN lastOp.result :
                 /\ IsFlat(lastOp.result[a])
                 /\ ~IsFlat(lastOp.result[b])
                 /\ lastOp.result[a].depth_samples + LeafSamples(lastOp.result[b])
                       < Len(q.depth)
                 /\ Cardinality(DOMAIN lastOp.result) = 2

-----------------------------------------------------------------------------
(* Properties of weighted_percentile *)

PercentileDone == kernel.fn = "weighted_percentile"

\* the valid pairs of the call sorted by value, their cumulative weights c and the
\* target t
SortedPairs ==
    LET valid == [i \in DOMAIN kernel.values |->
                     ~IsNaN(kernel.values[i]) /\ ~IsNaN(kernel.weights[i])]
    IN  SortByValue(Select([i \in DOMAIN kernel.values |->
                               [v |-> kernel.values[i], w |-> kernel.weights[i]]], valid))
CumWeights == CumSum([i \in DOMAIN SortedPairs |-> SortedPairs[i].w])
TargetWeight ==
    RMul(Rat(kernel.percentile, 100), CumWeights[Len(CumWeights)])

\* out is on the line from (c[i], value i) to (c[i+1], value i+1) at t, and the line
\* is not vertical
Interpolates(i) ==
    /\ CumWeights[i] # CumWeights[i + 1]
    /\ RMul(RSub(kernel.out, SortedPairs[i].v), RSub(CumWeights[i + 1], CumWeights[i]))
          = RMul(RSub(TargetWeight, CumWeights[i]),
                 RSub(SortedPairs[i + 1].v, SortedPairs[i].v))

\* C23 as stated: the smallest value when t <= c[first], the largest value when
\* t >= c[last], and otherwise the linear interpolation between the two values whose
\* cumulative weights bracket t, which never divides by zero.
C23_SmallestLargestOrBetween ==
    (PercentileDone /\ SortedPairs # <<>>) =>
        LET n == Len(SortedPairs)
        IN  /\ RLe(TargetWeight, CumWeights[1]) => kernel.out = SortedPairs[1].v
            /\ RLe(CumWeights[n], TargetWeight) => kernel.out = SortedPairs[n].v
            /\ (RLt(CumWeights[1], TargetWeight) /\ RLt(TargetWeight, CumWeights[n])) =>
                  \E i \in 1..(n - 1) :
                      /\ RLt(CumWeights[i], TargetWeight)
                      /\ RLe(TargetWeight, CumWeights[i + 1])
                      /\ Interpolates(i)
            /\ ~IsNaN(kernel.out)

\* C23, amended: the smallest value when t <= c[first]; otherwise the linear
\* interpolation between the values at the adjacent positions i and i+1, where i+1
\* is the first position whose cumulative weight reaches t, which never divides by
\* zero; that is the largest value when t >= c[last] and the largest value has a
\* positive weight.
C23_SmallestOrBetween ==
    (PercentileDone /\ SortedPairs # <<>>) =>
        LET n == Len(SortedPairs)
        IN  /\ RLe(TargetWeight, CumWeights[1]) => kernel.out = SortedPairs[1].v
            /\ RLt(CumWeights[1], TargetWeight) =>
                  \E i \in 1..(n - 1) :
                      /\ RLt(CumWeights[i], TargetWeight)
                      /\ RLe(TargetWeight, CumWeights[i + 1])
                      /\ Interpolates(i)
            /\ (RLt(CumWeights[1], TargetWeight) /\ RLe(CumWeights[n], TargetWeight)
                /\ RLt(R(0), SortedPairs[n].w)) => kernel.out = SortedPairs[n].v
            /\ ~IsNaN(kernel.out)

\* the 100th percentile where the largest value has no weight
C23_Witness ==
    /\ PercentileDone
    /\ Len(SortedPairs) = 3
    /\ kernel.percentile = 100
    /\ RLt(CumWeights[1], TargetWeight)
    /\ SortedPairs[3].w = R(0)
    /\ RLt(kernel.out, SortedPairs[3].v)

\* every leaf of the tree counts at least one sample
RECURSIVE LeavesCountSamples(_)
LeavesCountSamples(t) ==
    IF IsFlat(t) THEN t.depth_samples >= 1
    ELSE \A k \in DOMAIN t : LeavesCountSamples(t[k])

\* C24: in the tree sums_avg() returns for a filtered property every leaf has
\* depth_samples >= 1, no sample is counted in two leaves, and the depth_samples of
\* the leaves add up to at most len(depth), and to len(depth) when no filter has a
\* missing value.
C24_LeavesPartitionSamples ==
    (SumsAvgDone /\ heap[lastOp.self].secondary_properties # <<>>) =>
        LET q == heap[lastOp.self]
        IN  /\ LeavesCountSamples(lastOp.result)
            /\ LeafSamples(lastOp.result) <= Len(q.depth)
            /\ NoMissing(heap, q) => LeafSamples(lastOp.result) = Len(q.depth)

\* the branches of t and below are as many as the values of their filters on the
\* samples S
RECURSIVE BranchPerValue(_, _, _, _, _)
BranchPerValue(t, h, q, level, S) ==
    IF level > Len(q.secondary_properties) THEN TRUE
    ELSE LET f == h[q.secondary_properties[level]]
         IN  \/ ValuesOn(f, S) = {}
             \/ /\ ~IsFlat(t)
                /\ Cardinality(DOMAIN t) = Cardinality(ValuesOn(f, S))
                /\ \A v \in ValuesOn(f, S) :
                      /\ GroupKey(f, v) \in DOMAIN t
                      /\ BranchPerValue(t[GroupKey(f, v)], h, q, level + 1,
                                        SamplesAt(f, S, v))

\* C25: in sums_avg() two different values of one filter under one mask get
\* different keys, so that a level has as many branches as its filter has unique
\* non-missing values there and no group's statistics are overwritten by another's,
\* whatever the label mapping and also for values that are not integers.
C25_DistinctKeys ==
    (SumsAvgDone /\ heap[lastOp.self].secondary_properties # <<>>) =>
        LET q == heap[lastOp.self]
        IN  /\ \A k \in DOMAIN q.secondary_properties :
                  \A v1, v2 \in FilterVals(heap, q, k) :
                      v1 # v2 => GroupKey(heap[q.secondary_properties[k]], v1)
                                    # GroupKey(heap[q.secondary_properties[k]], v2)
            /\ BranchPerValue(lastOp.result, heap, q, 1, DOMAIN q.depth)
            /\ StopsOrGroups(lastOp.result, heap, q, 1, DOMAIN q.depth)
               => \A vs \in ValueTuples(heap, q) :
                     SamplesWhere(heap, q, vs) # {} =>
                         LeafHolds(Descend(lastOp.result,
                                           [k \in DOMAIN q.secondary_properties |->
                                               GroupKey(heap[q.secondary_properties[k]], vs[k])]),
                                   q, SamplesWhere(heap, q, vs))

\* the depth_thickness of the groups keys of a one-level tree, added up
RECURSIVE GroupThickness(_, _)
GroupThickness(t, keys) ==
    IF keys = {} THEN R(0)
    ELSE LET k == CHOOSE x \in keys : TRUE
         IN  RAdd(t[k].depth_thickness, GroupThickness(t, keys \ {k}))

\* C26: for a property filtered by one discrete filter without a missing value, the
\* depth_thickness values sums_avg() reports for the groups add up to at most the
\* depth_thickness it reports for the unfiltered property, however the filter's
\* values are arranged along depth.
C26_GroupThicknessWithinTotal ==
    (SumsAvgDone /\ Len(heap[lastOp.self].secondary_properties) = 1
                 /\ NoMissing(heap, heap[lastOp.self])) =>
        LET q == heap[lastOp.self]
            unfiltered == [q EXCEPT !.secondary_properties = <<>>]
        IN  RLe(GroupThickness(lastOp.result, DOMAIN lastOp.result),
                SumsAvg(heap, unfiltered).depth_thickness)

\* C27: whenever Well.to_dataframe raises (ValueError, PropertyNotFoundError or
\* WellError), the depth and the values of every property of the well are what they
\* were before the call.
C27_RaisingKeepsProperties ==
    [][(lastOp'.op = "to_dataframe" /\ lastOp'.raised # "none") =>
          \A i \in DOMAIN wprops :
              /\ heap'[wprops[i].id].depth = heap[wprops[i].id].depth
              /\ heap'[wprops[i].id].values = heap[wprops[i].id].values]_vars

-----------------------------------------------------------------------------
(* Loads that fail: Well.load_las and WellDataManager.load_las, also of a file     *)
(* without a depth column                                                          *)

FaultyLasFiles == LasFiles \cup {NoDepthLas}
ManagerFaultyLasFiles == ManagerLasFiles \cup {NoDepthLas}

\* Well.sources: the paths of _source_las_files, each once, in the order loaded
RECURSIVE WellSources(_)
WellSources(srcs) ==
    IF srcs = <<>> THEN <<>>
    ELSE LET front == WellSources(SubSeq(srcs, 1, Len(srcs) - 1))
             source == srcs[Len(srcs)]
         IN  IF source \in Range(front) THEN front ELSE Append(front, source)

\* well.load_las(las)
LoadFaultyLas ==
    /\ nLoads < MaxLoads
    /\ \E las \in FaultyLasFiles, tie \in {"existing", "new"} :
         LET r == WellLoadLas(heap, wprops, sourceLas, WellName, las, tie)
         IN  /\ heap' = r.heap
             /\ wprops' = r.wprops
             /\ sourceLas' = r.sources
             /\ lastOp' = Call("load_las", 0, las.filepath, r.raised, 0, <<>>,
                               <<r.heap, r.wprops, r.sources>> # <<heap, wprops, sourceLas>>)
    /\ nLoads' = nLoads + 1
    /\ UNCHANGED <<depthGrid, nResamples, nFilters, kernel, mgr>>

\* manager.load_las(filepath)
ManagerLoadFaultyLas ==
    /\ nLoads < MaxLoads
    /\ \E las \in ManagerFaultyLasFiles :
         LET r == ManagerLoadLas(mgr, las, "existing")
         IN  /\ mgr' = r.mgr
             /\ lastOp' = Call("manager.load_las", 0, las.filepath, r.raised, 0, <<>>,
                               r.mgr # mgr)
    /\ nLoads' = nLoads + 1
    /\ UNCHANGED <<prog, nResamples, nFilters, kernel>>

NextLoads == LoadFaultyLas \/ ManagerLoadFaultyLas \/ AddWellCall

SpecLoads == Init /\ [][NextLoads]_vars

\* C28: when a load fails (Well.load_las raising WellNameMismatchError or, for a
\* file without a depth column, WellError; WellDataManager.load_las raising because
\* the well's load_las raised) the state is what it was before the call: no well is
\* newly registered with the manager, and the properties and the sources list of
\* the target well are unchanged.
C28_FailedLoadChangesNothing ==
    [][/\ (lastOp'.op = "load_las" /\ lastOp'.raised # "none") =>
              /\ wprops' = wprops
              /\ heap' = heap
              /\ WellSources(sourceLas') = WellSources(sourceLas)
       /\ (lastOp'.op = "manager.load_las"
           /\ lastOp'.raised \in {"WellNameMismatchError", "WellError"}) =>
              /\ DOMAIN mgr'.wells = DOMAIN mgr.wells
              /\ \A k \in DOMAIN mgr.wells :
                    /\ mgr'.wells[k].wprops = mgr.wells[k].wprops
                    /\ mgr'.wells[k].heap = mgr.wells[k].heap
                    /\ WellSources(mgr'.wells[k].sources) = WellSources(mgr.wells[k].sources)]_vars

-----------------------------------------------------------------------------
(* Well.resample called twice *)

\* a resample onto a grid given by the caller has just returned: well.resample(
\* depth_grid=g), or the one to_dataframe(auto_resample=True) makes
ResampledOnGivenGrid ==
    \/ ResampleReturned /\ lastOp.arg.depth_grid # NoGrid
    \/ FrameCalled /\ lastOp.raised = "none" /\ lastOp.arg.auto_resample /\ wprops # <<>>

\* C29: Well.resample is idempotent on a fixed grid: right after well.resample(
\* depth_grid=g), a second well.resample(depth_grid=g) leaves the depth and the
\* values of every property, the missing positions included, as the first call left
\* them.
C29_ResampleIdempotent ==
    ResampledOnGivenGrid =>
        LET again == ResampleGrid(heap, wprops, depthGrid, NoStep, NoRange)
        IN  /\ again.raised = "none"
            /\ again.grid = depthGrid
            /\ ResampleAll(heap, wprops, again.grid) = heap

\* the first call changed the well, which holds a continuous and a discrete
\* property, and left a property with a missing and a present value
C29_Witness ==
    /\ ResampleReturned /\ lastOp.arg.depth_grid # NoGrid /\ lastOp.changed
    /\ \E i, j \in DOMAIN wprops :
          /\ heap[wprops[i].id].type = "continuous"
          /\ heap[wprops[j].id].type = "discrete"
          /\ \E a, b \in DOMAIN heap[wprops[i].id].values :
                /\ IsNaN(heap[wprops[i].id].values[a])
                /\ ~IsNaN(heap[wprops[i].id].values[b])

-----------------------------------------------------------------------------
(* sums_avg under the two orders of two filters *)

\* the paths <<a, b>> to the leaves of a two-level tree
LeafPaths(t) == UNION {{<<a, b>> : b \in DOMAIN t[a]} : a \in DOMAIN t}

\* the values of every filter of q have keys of their own
DistinctKeys(h, q) ==
    \A k \in DOMAIN q.secondary_properties :
        \A v1, v2 \in FilterVals(h, q, k) :
            v1 # v2 => GroupKey(h[q.secondary_properties[k]], v1)
                          # GroupKey(h[q.secondary_properties[k]], v2)

\* sums_avg() of the well's PHIE filtered by the two filters of q, the second first
SwappedSumsAvg(h, w, q) ==
    LET A == h[q.secondary_properties[1]].name
        B == h[q.secondary_properties[2]].name
        h2 == FilterChain(h, w, GetProperty(w, "PHIE"), <<B, A>>)
    IN  SumsAvg(h2, h2[Len(h2)])

TwoFiltersGrouped ==
    /\ SumsAvgDone
    /\ Len(heap[lastOp.self].secondary_properties) = 2
    /\ NoMissing(heap, heap[lastOp.self])
    /\ DistinctKeys(heap, heap[lastOp.self])

\* C30: the order of the filters only transposes the grouping: for discrete filters
\* A and B without missing values and with distinct keys,
\* p.filter(A).filter(B).sums_avg()[a][b] exists exactly when
\* p.filter(B).filter(A).sums_avg()[b][a] exists, and the two leaves hold equal
\* statistics.
C30_FilterOrderTransposes ==
    TwoFiltersGrouped =>
        LET ab == lastOp.result
            ba == SwappedSumsAvg(heap, wprops, heap[lastOp.self])
        IN  /\ LeafPaths(ab) = {<<path[2], path[1]>> : path \in LeafPaths(ba)}
            /\ \A path \in LeafPaths(ab) :
                  /\ IsFlat(ab[path[1]][path[2]])
                  /\ ab[path[1]][path[2]] = ba[path[2]][path[1]]

\* both filters have two groups, one combination of groups has no sample, and the
\* groups of the outer filter differ in their statistics
C30_Witness ==
    /\ TwoFiltersGrouped
    /\ Cardinality(DOMAIN lastOp.result) = 2
    /\ Cardinality(LeafPaths(lastOp.result)) = 3
    /\ \E a, b \in DOMAIN lastOp.result :
          \E k \in DOMAIN lastOp.result[a] \cap DOMAIN lastOp.result[b] :
              lastOp.result[a][k].count # lastOp.result[b][k].count

====
